---- MODULE Spec2Model ----
(***************************************************************************)
(* Choir Binder Manager: the keyboard-driven controller (ui/app.rs), its   *)
(* screen and form state (ui/screens.rs, ui/forms.rs) and the SQLite       *)
(* gateway it calls (db/binders.rs, db/songs.rs), as a state machine.      *)
(*                                                                         *)
(* Strings are sequences of one-character strings.  Vec<T> is a sequence;  *)
(* usize indices are 0-based as in the source (At(seq, i) reads seq[i]).   *)
(* A Result is a record [ok, a, v, err]: `a` is the application state      *)
(* after the call, `v` the Ok value, `err` the error message.              *)
(***************************************************************************)
EXTENDS Integers, Sequences, FiniteSets, TLC

VARIABLES
    conn,          \* the store behind App.conn: binders, songs, binder_songs
    binders,       \* App.binders, the binder cache
    selected,      \* App.selected, the grid cursor
    composers,     \* App.composers, the autocomplete cache
    screen,        \* App.screen
    mode,          \* App.mode
    status,        \* App.status
    saved_search,  \* App.saved_search
    run,           \* run_app's loop: "running", "exited" (handle_key returned
                   \* Ok(true)) or "crashed" (handle_key returned Err)
    calls          \* the gateway calls made while handling the last key

vars == <<conn, binders, selected, composers, screen, mode, status,
          saved_search, run, calls>>

-----------------------------------------------------------------------------
(* Bounds of the model *)

\* Longest text a form field or a search query is allowed to grow to.
MaxLen == 2
\* Most binders the store may hold (caps the add-binder form).
MaxBinders == 3
\* Most songs the store may hold (caps the create-song form).
MaxSongs == 3
\* A key's handling may see its k-th gateway call fail, k in 1..MaxFailAt.
MaxFailAt == 4
\* Most (binder, song) pairs a print report may list as missing at start.
MaxMissing == 3
\* Binders the grid starts with: a full first row and the start of a second.
GridBinders == 5
\* Highest id create_binder may give out (caps adding after deleting).
MaxBinderId == 6

-----------------------------------------------------------------------------
(* Text *)

NoId == -1

Min2(x, y) == IF x < y THEN x ELSE y
Max2(x, y) == IF x > y THEN x ELSE y
\* usize::saturating_sub
SatSub(x, y) == IF x > y THEN x - y ELSE 0
\* Vec indexing with a 0-based index
At(seq, i) == seq[i + 1]
SeqToSet(seq) == {seq[i] : i \in 1..Len(seq)}

DigitChars == <<"0", "1", "2", "3", "4", "5", "6", "7", "8", "9">>
Digits == SeqToSet(DigitChars)
DigitValue(c) == (CHOOSE i \in 1..10 : DigitChars[i] = c) - 1

\* char::to_lowercase on the letters the model types
LowerChar(c) ==
    CASE c = "A" -> "a"
      [] c = "B" -> "b"
      [] OTHER -> c

\* Code points, for String's Ord and SQLite's BINARY / NOCASE collations
CharCode(c) ==
    CASE c = " " -> 32
      [] c \in Digits -> 48 + DigitValue(c)
      [] c = "A" -> 65
      [] c = "B" -> 66
      [] c = "a" -> 97
      [] c = "b" -> 98
      [] OTHER -> 120

to_lowercase(s) == [i \in 1..Len(s) |-> LowerChar(s[i])]

IsSpace(c) == c = " "

\* str::trim
trim(s) ==
    LET idx == {i \in 1..Len(s) : ~IsSpace(s[i])}
    IN  IF idx = {} THEN <<>>
        ELSE LET lo == CHOOSE i \in idx : \A j \in idx : i <= j
                 hi == CHOOSE i \in idx : \A j \in idx : i >= j
             IN  SubSeq(s, lo, hi)

\* String::pop
pop(s) == IF Len(s) = 0 THEN s ELSE SubSeq(s, 1, Len(s) - 1)

\* str::cmp: lexicographic by code point; -1, 0 or 1
StrCmp(s, t) ==
    LET n == Min2(Len(s), Len(t))
        diff == {i \in 1..n : s[i] # t[i]}
    IN  IF diff = {}
        THEN (IF Len(s) < Len(t) THEN -1 ELSE IF Len(s) > Len(t) THEN 1 ELSE 0)
        ELSE LET k == CHOOSE i \in diff : \A j \in diff : i <= j
             IN  IF CharCode(s[k]) < CharCode(t[k]) THEN -1 ELSE 1

\* i64::to_string
RECURSIVE IntToStr(_)
IntToStr(n) ==
    IF n < 0 THEN <<"-">> \o IntToStr(0 - n)
    ELSE IF n < 10 THEN <<DigitChars[n + 1]>>
    ELSE IntToStr(n \div 10) \o <<DigitChars[(n % 10) + 1]>>

RECURSIVE DigitsValue(_)
DigitsValue(s) ==
    IF Len(s) = 0 THEN 0
    ELSE 10 * DigitsValue(SubSeq(s, 1, Len(s) - 1)) + DigitValue(s[Len(s)])

\* str::parse::<i64>: an optional sign, then one or more digits
ParseI64(s) ==
    LET signed == Len(s) > 0 /\ s[1] \in {"-", "+"}
        body == IF signed THEN SubSeq(s, 2, Len(s)) ELSE s
    IN  IF Len(body) = 0 \/ \E i \in 1..Len(body) : body[i] \notin Digits
        THEN [ok |-> FALSE, v |-> 0]
        ELSE [ok |-> TRUE,
              v |-> IF signed /\ s[1] = "-" THEN 0 - DigitsValue(body)
                    ELSE DigitsValue(body)]

-----------------------------------------------------------------------------
(* Messages, results, and the gateway's call log *)

Msg(text, arg) == [text |-> text, arg |-> arg]
NoMsg == Msg("", 0)

NoStatus == [text |-> "", arg |-> 0, kind |-> "None"]
StatusMessage(m, kind) == [text |-> m.text, arg |-> m.arg, kind |-> kind]

Ok(a, v) == [ok |-> TRUE, a |-> a, v |-> v, err |-> NoMsg]
Err(a, e) == [ok |-> FALSE, a |-> a, v |-> 0, err |-> e]

\* An error of the SQLite layer itself (I/O, lock, corruption): the deepest
\* cause of the anyhow chain, which surface_error shows.
SqliteError == Msg("sqlite error", 0)

\* The call being made is the one the environment fails.
Fails(a) == a.failAt = Len(a.calls) + 1
Called(a, op, x, y) ==
    [a EXCEPT !.calls = Append(@, [op |-> op, x |-> x, y |-> y])]

surface_error(r) == r.err

set_status(a, m, kind) == [a EXCEPT !.status = StatusMessage(m, kind)]
clear_status(a) == [a EXCEPT !.status = NoStatus]

-----------------------------------------------------------------------------
(* models.rs *)

Binder(id, number, label) == [id |-> id, number |-> number, label |-> label]
Song(id, title, composer, link) ==
    [id |-> id, title |-> title, composer |-> composer, link |-> link]
NoSong == Song(NoId, <<>>, <<>>, <<>>)

display_title(song) ==
    IF trim(song.composer) = <<>> THEN song.title
    ELSE song.title \o <<" ", "-", " ">> \o song.composer

-----------------------------------------------------------------------------
(* db/binders.rs and db/songs.rs over the three tables *)

\* The listing without its ORDER BY: rows come out in rowid order
RECURSIVE OrderByRowid(_)
OrderByRowid(S) ==
    IF S = {} THEN <<>>
    ELSE LET m == CHOOSE b \in S : \A c \in S : b.id <= c.id
         IN  <<m>> \o OrderByRowid(S \ {m})

\* ORDER BY number
RECURSIVE OrderByNumber(_)
OrderByNumber(S) ==
    IF S = {} THEN <<>>
    ELSE LET m == CHOOSE b \in S : \A c \in S : b.number <= c.number
         IN  <<m>> \o OrderByNumber(S \ {m})

\* ORDER BY title COLLATE NOCASE, composer COLLATE NOCASE (rows that tie come
\* out in rowid order)
SongBefore(s, t) ==
    LET c1 == StrCmp(to_lowercase(s.title), to_lowercase(t.title))
        c2 == StrCmp(to_lowercase(s.composer), to_lowercase(t.composer))
    IN  \/ c1 < 0
        \/ c1 = 0 /\ c2 < 0
        \/ c1 = 0 /\ c2 = 0 /\ s.id <= t.id

RECURSIVE OrderSongs(_)
OrderSongs(S) ==
    IF S = {} THEN <<>>
    ELSE LET m == CHOOSE s \in S : \A t \in S : SongBefore(s, t)
         IN  <<m>> \o OrderSongs(S \ {m})

fetch_binders(a) ==
    LET b == Called(a, "fetch_binders", 0, 0)
    IN  IF Fails(a) THEN Err(b, SqliteError)
        ELSE Ok(b, OrderByNumber(a.conn.binders))

\* create_binder with no UNIQUE constraint on binders.number
create_binder_unchecked(a, number, label) ==
    LET b == Called(a, "create_binder", number, 0)
        id == a.conn.next_binder_id
    IN  IF Fails(a) THEN Err(b, SqliteError)
        ELSE Ok([b EXCEPT !.conn.binders = @ \cup {Binder(id, number, label)},
                          !.conn.next_binder_id = id + 1],
                Binder(id, number, label))

create_binder(a, number, label) ==
    LET b == Called(a, "create_binder", number, 0)
        id == a.conn.next_binder_id
    IN  IF Fails(a) THEN Err(b, SqliteError)
        ELSE IF \E x \in a.conn.binders : x.number = number
        THEN Err(b, Msg("Binder number {number} already exists.", number))
        ELSE Ok([b EXCEPT !.conn.binders = @ \cup {Binder(id, number, label)},
                          !.conn.next_binder_id = id + 1],
                Binder(id, number, label))

update_binder(a, id, number, label) ==
    LET b == Called(a, "update_binder", id, number)
    IN  IF Fails(a) THEN Err(b, SqliteError)
        ELSE IF ~\E x \in a.conn.binders : x.id = id
        THEN Err(b, Msg("Binder not found", 0))
        ELSE IF \E x \in a.conn.binders : x.id # id /\ x.number = number
        THEN Err(b, Msg("Binder number {number} already exists.", number))
        ELSE Ok([b EXCEPT !.conn.binders =
                    {IF x.id = id THEN Binder(id, number, label) ELSE x : x \in @}],
                0)

\* delete_binder with no ON DELETE CASCADE on binder_songs.binder_id
delete_binder_no_cascade(a, id) ==
    LET b == Called(a, "delete_binder", id, 0)
    IN  IF Fails(a) THEN Err(b, SqliteError)
        ELSE IF ~\E x \in a.conn.binders : x.id = id
        THEN Err(b, Msg("Binder not found", 0))
        ELSE Ok([b EXCEPT !.conn.binders = {x \in @ : x.id # id}], 0)

delete_binder(a, id) ==
    LET b == Called(a, "delete_binder", id, 0)
    IN  IF Fails(a) THEN Err(b, SqliteError)
        ELSE IF ~\E x \in a.conn.binders : x.id = id
        THEN Err(b, Msg("Binder not found", 0))
        ELSE Ok([b EXCEPT !.conn.binders = {x \in @ : x.id # id},
                          !.conn.binder_songs = {l \in @ : l[1] # id}],
                0)

fetch_all_songs(a) ==
    LET b == Called(a, "fetch_all_songs", 0, 0)
    IN  IF Fails(a) THEN Err(b, SqliteError)
        ELSE Ok(b, OrderSongs(a.conn.songs))

\* SELECT DISTINCT composer ... ORDER BY LOWER(composer), composer
RECURSIVE OrderComposers(_)
OrderComposers(S) ==
    IF S = {} THEN <<>>
    ELSE LET before(c, d) ==
                 LET k == StrCmp(to_lowercase(c), to_lowercase(d))
                 IN  k < 0 \/ (k = 0 /\ StrCmp(c, d) <= 0)
             m == CHOOSE c \in S : \A d \in S : before(c, d)
         IN  <<m>> \o OrderComposers(S \ {m})

fetch_composers(a) ==
    LET b == Called(a, "fetch_composers", 0, 0)
    IN  IF Fails(a) THEN Err(b, SqliteError)
        ELSE Ok(b, OrderComposers({s.composer : s \in a.conn.songs} \ {<<>>}))

fetch_songs_for_binder(a, binder_id) ==
    LET b == Called(a, "fetch_songs_for_binder", binder_id, 0)
    IN  IF Fails(a) THEN Err(b, SqliteError)
        ELSE Ok(b, OrderSongs({s \in a.conn.songs :
                                  <<binder_id, s.id>> \in a.conn.binder_songs}))

fetch_available_songs(a, binder_id) ==
    LET b == Called(a, "fetch_available_songs", binder_id, 0)
    IN  IF Fails(a) THEN Err(b, SqliteError)
        ELSE Ok(b, OrderSongs({s \in a.conn.songs :
                                  <<binder_id, s.id>> \notin a.conn.binder_songs}))

create_song(a, title, composer, link) ==
    LET b == Called(a, "create_song", 0, 0)
        id == a.conn.next_song_id
    IN  IF Fails(a) THEN Err(b, SqliteError)
        ELSE Ok([b EXCEPT !.conn.songs = @ \cup {Song(id, title, composer, link)},
                          !.conn.next_song_id = id + 1],
                Song(id, title, composer, link))

update_song(a, id, title, composer, link) ==
    LET b == Called(a, "update_song", id, 0)
    IN  IF Fails(a) THEN Err(b, SqliteError)
        ELSE IF ~\E s \in a.conn.songs : s.id = id
        THEN Err(b, Msg("Song not found", 0))
        ELSE Ok([b EXCEPT !.conn.songs =
                    {IF s.id = id THEN Song(id, title, composer, link) ELSE s : s \in @}],
                0)

\* INSERT OR IGNORE: a pair already present is left alone; a pair whose binder
\* or song row is absent violates a FOREIGN KEY, which OR IGNORE does not cover.
\* add_song_to_binder with a plain INSERT in place of INSERT OR IGNORE
add_song_to_binder_plain_insert(a, binder_id, song_id) ==
    LET b == Called(a, "add_song_to_binder", binder_id, song_id)
    IN  IF Fails(a) THEN Err(b, SqliteError)
        ELSE IF <<binder_id, song_id>> \in a.conn.binder_songs
        THEN Err(b, Msg("UNIQUE constraint failed", 0))
        ELSE IF \/ ~\E x \in a.conn.binders : x.id = binder_id
                \/ ~\E s \in a.conn.songs : s.id = song_id
        THEN Err(b, Msg("FOREIGN KEY constraint failed", 0))
        ELSE Ok([b EXCEPT !.conn.binder_songs = @ \cup {<<binder_id, song_id>>}], 0)

add_song_to_binder(a, binder_id, song_id) ==
    LET b == Called(a, "add_song_to_binder", binder_id, song_id)
    IN  IF Fails(a) THEN Err(b, SqliteError)
        ELSE IF <<binder_id, song_id>> \in a.conn.binder_songs THEN Ok(b, 0)
        ELSE IF \/ ~\E x \in a.conn.binders : x.id = binder_id
                \/ ~\E s \in a.conn.songs : s.id = song_id
        THEN Err(b, Msg("FOREIGN KEY constraint failed", 0))
        ELSE Ok([b EXCEPT !.conn.binder_songs = @ \cup {<<binder_id, song_id>>}], 0)

remove_song_from_binder(a, binder_id, song_id) ==
    LET b == Called(a, "remove_song_from_binder", binder_id, song_id)
    IN  IF Fails(a) THEN Err(b, SqliteError)
        ELSE IF <<binder_id, song_id>> \notin a.conn.binder_songs
        THEN Err(b, Msg("Song not linked to this binder", 0))
        ELSE Ok([b EXCEPT !.conn.binder_songs = @ \ {<<binder_id, song_id>>}], 0)

delete_song(a, id) ==
    LET b == Called(a, "delete_song", id, 0)
    IN  IF Fails(a) THEN Err(b, SqliteError)
        ELSE IF ~\E s \in a.conn.songs : s.id = id
        THEN Err(b, Msg("Song not found", 0))
        ELSE Ok([b EXCEPT !.conn.songs = {s \in @ : s.id # id},
                          !.conn.binder_songs = {l \in @ : l[2] # id}],
                0)

-----------------------------------------------------------------------------
(* ui/screens.rs: ToPrintScreen *)

\* A MissingSong that starts out checked
MissingSong_checked(song, checked) == [song |-> song, checked |-> TRUE]

MissingSong(song, checked) == [song |-> song, checked |-> checked]
SongNeeded(song, needed) == [song |-> song, needed |-> needed]
BinderReport(binder, songs) ==
    [binder_id |-> binder.id, binder_number |-> binder.number,
     binder_label |-> binder.label, songs |-> songs]
\* BinderRow.text is "[x] title" or "[ ] title" for a song row: kept as the
\* checkbox it shows.  binder_index / song_index: NoId is None.
BinderRow(kind, binder_index, song_index, checkbox) ==
    [kind |-> kind, binder_index |-> binder_index, song_index |-> song_index,
     checkbox |-> checkbox]
\* SongRow.text is "<title>  (<needed> copies)" or the placeholder's text:
\* kept as the count it shows (0 for the placeholder).
SongRow_from_needed(entry) == [song |-> entry.song, needed |-> entry.needed]
SongRow_placeholder == [song |-> NoSong, needed |-> 0]

current_len(s) ==
    IF s.mode = "ByBinder" THEN Len(s.binder_rows) ELSE Len(s.song_rows)

max_scroll(s) ==
    IF ~s.director_exists THEN 0 ELSE SatSub(current_len(s), 1)

update_scroll(s) ==
    IF ~s.director_exists \/ current_len(s) = 0
    THEN [s EXCEPT !.scroll = 0, !.selected_index = 0]
    ELSE [s EXCEPT !.scroll = Min2(SatSub(s.selected_index, 3), max_scroll(s))]

\* The clamp both refresh_* functions apply when their view is the shown one
ClampSelection(s) ==
    LET len == current_len(s)
        t == IF len = 0 THEN [s EXCEPT !.selected_index = 0]
             ELSE IF s.selected_index >= len
             THEN [s EXCEPT !.selected_index = len - 1]
             ELSE s
    IN  update_scroll(t)

RECURSIVE BinderRowsFrom(_, _)
BinderRowsFrom(reports, binder_idx) ==
    IF binder_idx >= Len(reports) THEN <<>>
    ELSE LET report == At(reports, binder_idx)
         IN  <<BinderRow("Header", binder_idx, NoId, FALSE)>>
             \o [j \in 1..Len(report.songs) |->
                    BinderRow("Song", binder_idx, j - 1, report.songs[j].checked)]
             \o BinderRowsFrom(reports, binder_idx + 1)

refresh_binder_rows(s) ==
    IF ~s.director_exists THEN [s EXCEPT !.binder_rows = <<>>]
    ELSE LET t == [s EXCEPT !.binder_rows = BinderRowsFrom(s.binder_reports, 0)]
         IN  IF t.mode = "ByBinder" THEN ClampSelection(t) ELSE t

\* a sorts before b: title, then composer, both lowercased
NeededCmp(x, y) ==
    LET c1 == StrCmp(to_lowercase(x.song.title), to_lowercase(y.song.title))
    IN  IF c1 # 0 THEN c1
        ELSE StrCmp(to_lowercase(x.song.composer), to_lowercase(y.song.composer))

\* slice::sort_by is stable: an entry goes after every entry not greater
\* The needed counts left in the order of song_totals
SortNeeded_unsorted(seq) == seq

RECURSIVE SortNeeded(_)
SortNeeded(seq) ==
    IF Len(seq) <= 1 THEN seq
    ELSE LET last == seq[Len(seq)]
             rest == SortNeeded(SubSeq(seq, 1, Len(seq) - 1))
             k == Cardinality({i \in 1..Len(rest) : NeededCmp(rest[i], last) <= 0})
         IN  SubSeq(rest, 1, k) \o <<last>> \o SubSeq(rest, k + 1, Len(rest))

refresh_song_rows(s) ==
    LET needs == SortNeeded(SelectSeq(s.song_totals, LAMBDA e : e.needed > 0))
        rows == [i \in 1..Len(needs) |-> SongRow_from_needed(needs[i])]
        t == [s EXCEPT !.song_rows =
                 IF rows = <<>> THEN <<SongRow_placeholder>> ELSE rows]
    IN  IF t.mode = "BySong" THEN ClampSelection(t) ELSE t

ToPrintScreen_with_data(binder_reports, song_totals) ==
    refresh_song_rows(refresh_binder_rows(
        [kind |-> "ToPrint", director_exists |-> TRUE, mode |-> "ByBinder",
         binder_reports |-> binder_reports, binder_rows |-> <<>>,
         song_totals |-> song_totals, song_rows |-> <<>>,
         scroll |-> 0, selected_index |-> 0, pending_changes |-> 0]))

ToPrintScreen_missing_director ==
    [kind |-> "ToPrint", director_exists |-> FALSE, mode |-> "ByBinder",
     binder_reports |-> <<>>, binder_rows |-> <<>>,
     song_totals |-> <<>>, song_rows |-> <<>>,
     scroll |-> 0, selected_index |-> 0, pending_changes |-> 0]

\* toggle_mode without its test for a director
toggle_mode_unguarded(s) ==
    update_scroll(
        [s EXCEPT !.mode = IF @ = "ByBinder" THEN "BySong" ELSE "ByBinder",
                  !.selected_index = 0, !.scroll = 0])

toggle_mode(s) ==
    IF ~s.director_exists THEN s
    ELSE update_scroll(
            [s EXCEPT !.mode = IF @ = "ByBinder" THEN "BySong" ELSE "ByBinder",
                      !.selected_index = 0, !.scroll = 0])

ToPrint_move_selection(s, delta) ==
    IF ~s.director_exists THEN s
    ELSE IF current_len(s) = 0 THEN [s EXCEPT !.selected_index = 0, !.scroll = 0]
    ELSE LET len == current_len(s)
             raw == s.selected_index + delta
             new_index == IF raw < 0 THEN 0 ELSE IF raw >= len THEN len - 1 ELSE raw
         IN  update_scroll([s EXCEPT !.selected_index = new_index])

ToPrint_select_first(s) ==
    IF ~s.director_exists THEN s
    ELSE update_scroll([s EXCEPT !.selected_index = 0])

ToPrint_select_last(s) ==
    IF ~s.director_exists THEN s
    ELSE update_scroll(
            [s EXCEPT !.selected_index =
                IF current_len(s) = 0 THEN 0 ELSE current_len(s) - 1])

\* adjust_song_needed without its test of the song id
adjust_song_needed_every_song(s, song_id, delta) ==
    refresh_song_rows(
        [s EXCEPT !.song_totals =
            [i \in 1..Len(@) |-> [@[i] EXCEPT !.needed = Max2(@ + delta, 0)]]])

adjust_song_needed(s, song_id, delta) ==
    LET hits == {i \in 1..Len(s.song_totals) : s.song_totals[i].song.id = song_id}
        t == IF hits = {} THEN s
             ELSE LET k == CHOOSE i \in hits : \A j \in hits : i <= j
                  IN  [s EXCEPT !.song_totals[k].needed = Max2(@ + delta, 0)]
    IN  refresh_song_rows(t)

\* Option<bool>: [some, checked]; the screen after the call is in .s
\* toggle_current without its test for the binder-grouped mode
toggle_current_any_mode(s) ==
    LET none == [some |-> FALSE, checked |-> FALSE, s |-> s]
    IN  IF ~s.director_exists THEN none
        ELSE IF s.selected_index >= Len(s.binder_rows) THEN none
        ELSE LET row == At(s.binder_rows, s.selected_index)
             IN  IF row.kind # "Song" \/ row.binder_index = NoId
                    \/ row.song_index = NoId
                 THEN none
                 ELSE LET b == row.binder_index + 1
                          j == row.song_index + 1
                          entry == s.binder_reports[b].songs[j]
                          now_checked == ~entry.checked
                          t == [s EXCEPT !.binder_reports[b].songs[j].checked =
                                             now_checked]
                          u == IF now_checked
                               THEN adjust_song_needed(
                                        [t EXCEPT !.pending_changes = @ + 1],
                                        entry.song.id, -1)
                               ELSE adjust_song_needed(
                                        [t EXCEPT !.pending_changes = SatSub(@, 1)],
                                        entry.song.id, 1)
                      IN  [some |-> TRUE, checked |-> now_checked,
                           s |-> refresh_binder_rows(u)]

\* toggle_current whose unchecking leaves pending_changes as it was
toggle_current_never_decrementing(s) ==
    LET none == [some |-> FALSE, checked |-> FALSE, s |-> s]
    IN  IF ~s.director_exists \/ s.mode # "ByBinder" THEN none
        ELSE IF s.selected_index >= Len(s.binder_rows) THEN none
        ELSE LET row == At(s.binder_rows, s.selected_index)
             IN  IF row.kind # "Song" \/ row.binder_index = NoId
                    \/ row.song_index = NoId
                 THEN none
                 ELSE LET b == row.binder_index + 1
                          j == row.song_index + 1
                          entry == s.binder_reports[b].songs[j]
                          now_checked == ~entry.checked
                          t == [s EXCEPT !.binder_reports[b].songs[j].checked =
                                             now_checked]
                          u == IF now_checked
                               THEN adjust_song_needed(
                                        [t EXCEPT !.pending_changes = @ + 1],
                                        entry.song.id, -1)
                               ELSE adjust_song_needed(t, entry.song.id, 1)
                      IN  [some |-> TRUE, checked |-> now_checked,
                           s |-> refresh_binder_rows(u)]

toggle_current(s) ==
    LET none == [some |-> FALSE, checked |-> FALSE, s |-> s]
    IN  IF ~s.director_exists \/ s.mode # "ByBinder" THEN none
        ELSE IF s.selected_index >= Len(s.binder_rows) THEN none
        ELSE LET row == At(s.binder_rows, s.selected_index)
             IN  IF row.kind # "Song" \/ row.binder_index = NoId
                    \/ row.song_index = NoId
                 THEN none
                 ELSE LET b == row.binder_index + 1
                          j == row.song_index + 1
                          entry == s.binder_reports[b].songs[j]
                          now_checked == ~entry.checked
                          t == [s EXCEPT !.binder_reports[b].songs[j].checked =
                                             now_checked]
                          u == IF now_checked
                               THEN adjust_song_needed(
                                        [t EXCEPT !.pending_changes = @ + 1],
                                        entry.song.id, -1)
                               ELSE adjust_song_needed(
                                        [t EXCEPT !.pending_changes = SatSub(@, 1)],
                                        entry.song.id, 1)
                      IN  [some |-> TRUE, checked |-> now_checked,
                           s |-> refresh_binder_rows(u)]

\* has_pending_changes asking for more than one pending change
has_pending_changes_above_one(s) == s.pending_changes > 1

has_pending_changes(s) == s.pending_changes > 0

\* pending_assignments without its filter on `checked`
RECURSIVE AssignmentsFrom_unfiltered(_, _)
AssignmentsFrom_unfiltered(reports, i) ==
    IF i > Len(reports) THEN <<>>
    ELSE [j \in 1..Len(reports[i].songs) |->
             <<reports[i].binder_id, reports[i].songs[j].song.id>>]
         \o AssignmentsFrom_unfiltered(reports, i + 1)

RECURSIVE AssignmentsFrom(_, _)
AssignmentsFrom(reports, i) ==
    IF i > Len(reports) THEN <<>>
    ELSE LET report == reports[i]
             picked == SelectSeq(report.songs, LAMBDA m : m.checked)
         IN  [j \in 1..Len(picked) |-> <<report.binder_id, picked[j].song.id>>]
             \o AssignmentsFrom(reports, i + 1)

pending_assignments(s) == AssignmentsFrom(s.binder_reports, 1)

-----------------------------------------------------------------------------
(* ui/screens.rs: SongManagerScreen, SongScreen, AddSongState *)

\* Option<String>
NoText == [some |-> FALSE, v |-> <<>>]
SomeText(v) == [some |-> TRUE, v |-> v]

\* str::contains and str::starts_with
contains(s, sub) ==
    \E i \in 0..(Len(s) - Len(sub)) : SubSeq(s, i + 1, i + Len(sub)) = sub
starts_with(s, p) == Len(p) <= Len(s) /\ SubSeq(s, 1, Len(p)) = p

\* The query test looking at the title alone
MatchesFilter_title_only(song, filter) ==
    LET ql == to_lowercase(filter.v)
    IN  \/ ~filter.some
        \/ trim(ql) = <<>>
        \/ contains(to_lowercase(song.title), ql)

\* The query test shared by both apply_filter functions
MatchesFilter(song, filter) ==
    LET ql == to_lowercase(filter.v)
    IN  \/ ~filter.some
        \/ trim(ql) = <<>>
        \/ contains(to_lowercase(song.title), ql)
        \/ contains(to_lowercase(song.composer), ql)

\* apply_filter without its index clamp
ClampSelected_skipped(s) == s

\* The index clamp at the end of apply_filter, and ensure_in_bounds
ClampSelected(s) ==
    IF Len(s.filtered_songs) = 0 THEN [s EXCEPT !.selected = 0]
    ELSE IF s.selected >= Len(s.filtered_songs)
    THEN [s EXCEPT !.selected = Len(s.filtered_songs) - 1]
    ELSE s

\* apply_filter with the no-link filter taking the place of the search filter
SongManager_apply_filter_either(s) ==
    LET base == SelectSeq(s.songs, LAMBDA x : MatchesFilter(x, s.filter))
        shown == IF s.show_only_no_link
                 THEN SelectSeq(s.songs, LAMBDA x : trim(x.link) = <<>>)
                 ELSE base
    IN  ClampSelected([s EXCEPT !.filtered_songs = shown])

SongManager_apply_filter(s) ==
    LET base == SelectSeq(s.songs, LAMBDA x : MatchesFilter(x, s.filter))
        shown == IF s.show_only_no_link
                 THEN SelectSeq(base, LAMBDA x : trim(x.link) = <<>>)
                 ELSE base
    IN  ClampSelected([s EXCEPT !.filtered_songs = shown])

SongManagerScreen_new(songs) ==
    ClampSelected(SongManager_apply_filter(
        [kind |-> "SongManager", songs |-> songs, filtered_songs |-> <<>>,
         filter |-> NoText, show_only_no_link |-> FALSE, selected |-> 0]))

SongManager_set_filter(s, filter) ==
    SongManager_apply_filter([s EXCEPT !.filter = filter])

\* toggle_show_no_link setting the flag instead of inverting it
toggle_show_no_link_set(s) ==
    SongManager_apply_filter([s EXCEPT !.show_only_no_link = TRUE])

toggle_show_no_link(s) ==
    SongManager_apply_filter([s EXCEPT !.show_only_no_link = ~@])

SongManager_set_songs(s, songs) ==
    SongManager_apply_filter([s EXCEPT !.songs = songs])

SongScreen_apply_filter(s) ==
    ClampSelected([s EXCEPT !.filtered_songs =
                      SelectSeq(s.songs, LAMBDA x : MatchesFilter(x, s.filter))])

SongScreen_new(binder, songs) ==
    ClampSelected(SongScreen_apply_filter(
        [kind |-> "Songs", binder |-> binder, songs |-> songs,
         filtered_songs |-> <<>>, filter |-> NoText, selected |-> 0]))

SongScreen_set_filter(s, filter) ==
    SongScreen_apply_filter([s EXCEPT !.filter = filter])

SongScreen_set_songs(s, songs) ==
    SongScreen_apply_filter([s EXCEPT !.songs = songs])

\* set_filter / set_songs of whichever list screen is shown
set_filter(s, filter) ==
    IF s.kind = "SongManager" THEN SongManager_set_filter(s, filter)
    ELSE SongScreen_set_filter(s, filter)

\* current_song of SongScreen and SongManagerScreen: NoSong is None
current_song(s) ==
    IF s.selected < Len(s.filtered_songs) THEN At(s.filtered_songs, s.selected)
    ELSE NoSong

\* move_selection / select_first / select_last of the two list screens
move_selection(s, offset) ==
    IF Len(s.filtered_songs) = 0 THEN s
    ELSE LET len == Len(s.filtered_songs)
             raw == s.selected + offset
         IN  [s EXCEPT !.selected =
                 IF raw < 0 THEN 0 ELSE IF raw >= len THEN len - 1 ELSE raw]

select_first(s) ==
    IF Len(s.filtered_songs) = 0 THEN s ELSE [s EXCEPT !.selected = 0]

select_last(s) ==
    IF Len(s.filtered_songs) = 0 THEN s
    ELSE [s EXCEPT !.selected = Len(s.filtered_songs) - 1]

AddSongItem_CreateNew == [create_new |-> TRUE, song |-> NoSong]
AddSongItem_Existing(song) == [create_new |-> FALSE, song |-> song]

load_director_song_ids(a) ==
    LET b == Called(a, "load_director_song_ids", 0, 0)
    IN  IF Fails(a) THEN Err(b, SqliteError)
        ELSE Ok(b, {l[2] : l \in {m \in a.conn.binder_songs :
                        \E x \in a.conn.binders : x.id = m[1] /\ x.number = 0}})

\* AddSongState::load offering every song of the store
AddSongState_load_all(a, binder_id) ==
    LET r1 == fetch_all_songs(a)
        r2 == load_director_song_ids(r1.a)
    IN  IF ~r1.ok THEN r1
        ELSE IF ~r2.ok THEN r2
        ELSE Ok(r2.a,
                [binder_id |-> binder_id,
                 items |-> <<AddSongItem_CreateNew>>
                           \o [i \in 1..Len(r1.v) |-> AddSongItem_Existing(r1.v[i])],
                 selected |-> 0, checked |-> {}, director_song_ids |-> r2.v])

AddSongState_load(a, binder_id) ==
    LET r1 == fetch_available_songs(a, binder_id)
        r2 == load_director_song_ids(r1.a)
    IN  IF ~r1.ok THEN r1
        ELSE IF ~r2.ok THEN r2
        ELSE Ok(r2.a,
                [binder_id |-> binder_id,
                 items |-> <<AddSongItem_CreateNew>>
                           \o [i \in 1..Len(r1.v) |-> AddSongItem_Existing(r1.v[i])],
                 selected |-> 0, checked |-> {}, director_song_ids |-> r2.v])

AddSong_move_selection(s, offset) ==
    IF Len(s.items) = 0 THEN s
    ELSE LET len == Len(s.items)
             raw == s.selected + offset
         IN  [s EXCEPT !.selected =
                 IF raw < 0 THEN 0 ELSE IF raw >= len THEN len - 1 ELSE raw]

AddSong_select_first(s) ==
    IF Len(s.items) = 0 THEN s ELSE [s EXCEPT !.selected = 0]

AddSong_select_last(s) ==
    IF Len(s.items) = 0 THEN s ELSE [s EXCEPT !.selected = Len(s.items) - 1]

\* Option<&AddSongItem>: [some, item]
current_item(s) ==
    IF s.selected < Len(s.items)
    THEN [some |-> TRUE, item |-> At(s.items, s.selected)]
    ELSE [some |-> FALSE, item |-> AddSongItem_CreateNew]

toggle_current_selection(s) ==
    LET cur == current_item(s)
    IN  IF cur.some /\ ~cur.item.create_new
        THEN LET id == cur.item.song.id
             IN  [s EXCEPT !.checked = IF id \in @ THEN @ \ {id} ELSE @ \cup {id}]
        ELSE s

checked_songs(s) ==
    LET picked == SelectSeq(s.items,
                      LAMBDA it : ~it.create_new /\ it.song.id \in s.checked)
    IN  [i \in 1..Len(picked) |-> picked[i].song]

-----------------------------------------------------------------------------
(* ui/forms.rs *)

BinderForm_default ==
    [number |-> <<>>, label |-> <<>>, active |-> "Number", error |-> NoMsg]

BinderForm_with_number(number) ==
    IF number > 0 THEN [BinderForm_default EXCEPT !.number = IntToStr(number)]
    ELSE BinderForm_default

BinderForm_from_binder(binder) ==
    [number |-> IntToStr(binder.number), label |-> binder.label,
     active |-> "Number", error |-> NoMsg]

BinderForm_focus(form, field) == [form EXCEPT !.active = field]

BinderForm_toggle_field(form) ==
    [form EXCEPT !.active = IF @ = "Number" THEN "Label" ELSE "Number"]

\* char::is_control: of the characters a key may carry, U+0005 (what a
\* terminal sends for Ctrl+E when it reports no modifier) is the control one.
ControlChars == {"U+0005"}
is_control(ch) == ch \in ControlChars

\* [pushed, form]
BinderForm_push_char(form, ch) ==
    IF form.active = "Number"
    THEN (IF ch \in Digits
          THEN [pushed |-> TRUE, form |-> [form EXCEPT !.number = Append(@, ch)]]
          ELSE [pushed |-> FALSE, form |-> form])
    ELSE (IF ~is_control(ch)
          THEN [pushed |-> TRUE, form |-> [form EXCEPT !.label = Append(@, ch)]]
          ELSE [pushed |-> FALSE, form |-> form])

BinderForm_backspace(form) ==
    IF form.active = "Number" THEN [form EXCEPT !.number = pop(@)]
    ELSE [form EXCEPT !.label = pop(@)]

\* Result<(i64, String)>: [ok, number, label, err]
BinderForm_parse_inputs(form) ==
    LET number_raw == trim(form.number)
        parsed == ParseI64(number_raw)
        label == trim(form.label)
        bad(m) == [ok |-> FALSE, number |-> 0, label |-> <<>>, err |-> Msg(m, 0)]
    IN  IF number_raw = <<>> THEN bad("Binder number is required.")
        ELSE IF ~parsed.ok THEN bad("invalid digit found in string")
        ELSE IF label = <<>> THEN bad("Binder label is required.")
        ELSE [ok |-> TRUE, number |-> parsed.v, label |-> label, err |-> NoMsg]

ConfirmBinderDelete_from(binder) ==
    [id |-> binder.id, number |-> binder.number, label |-> binder.label]

SongForm_default ==
    [title |-> <<>>, composer |-> <<>>, link |-> <<>>, active |-> "Title",
     error |-> NoMsg, suggestion |-> NoText, autocomplete_disabled |-> FALSE]

SongForm_from_song(song) ==
    [title |-> song.title, composer |-> song.composer, link |-> song.link,
     active |-> "Title", error |-> NoMsg, suggestion |-> NoText,
     autocomplete_disabled |-> FALSE]

clear_suggestion(form) == [form EXCEPT !.suggestion = NoText]

SongForm_toggle_field(form) ==
    LET f == [form EXCEPT !.active =
                 CASE @ = "Title" -> "Composer"
                   [] @ = "Composer" -> "Link"
                   [] OTHER -> "Title"]
    IN  IF f.active # "Composer" THEN clear_suggestion(f) ELSE f

\* [pushed, form]
SongForm_push_char(form, ch) ==
    IF is_control(ch) THEN [pushed |-> FALSE, form |-> form]
    ELSE [pushed |-> TRUE,
          form |-> CASE form.active = "Title" -> [form EXCEPT !.title = Append(@, ch)]
                     [] form.active = "Composer" ->
                          [form EXCEPT !.autocomplete_disabled = FALSE,
                                       !.composer = Append(@, ch)]
                     [] OTHER -> [form EXCEPT !.link = Append(@, ch)]]

SongForm_backspace(form) ==
    CASE form.active = "Title" -> [form EXCEPT !.title = pop(@)]
      [] form.active = "Composer" ->
           [form EXCEPT !.composer = pop(@), !.autocomplete_disabled = FALSE]
      [] OTHER -> [form EXCEPT !.link = pop(@)]

\* Result<(String, String, String)>: [ok, title, composer, link, err]
SongForm_parse_inputs(form) ==
    IF trim(form.title) = <<>>
    THEN [ok |-> FALSE, title |-> <<>>, composer |-> <<>>, link |-> <<>>,
          err |-> Msg("Song title is required.", 0)]
    ELSE [ok |-> TRUE, title |-> trim(form.title), composer |-> trim(form.composer),
          link |-> trim(form.link), err |-> NoMsg]

\* update_suggestion looking for a composer from the first character on
update_suggestion_from_one(form, cached) ==
    IF form.active # "Composer" THEN clear_suggestion(form)
    ELSE IF form.autocomplete_disabled \/ Len(form.composer) < 1
    THEN clear_suggestion(form)
    ELSE LET current_lower == to_lowercase(form.composer)
             hits == {i \in 1..Len(cached) :
                         starts_with(to_lowercase(cached[i]), current_lower)}
         IN  IF hits = {} THEN [form EXCEPT !.suggestion = NoText]
             ELSE LET candidate == cached[CHOOSE i \in hits : \A j \in hits : i <= j]
                  IN  IF Len(candidate) = Len(form.composer)
                         /\ to_lowercase(candidate) = current_lower
                      THEN [form EXCEPT !.suggestion = NoText]
                      ELSE [form EXCEPT !.suggestion = SomeText(candidate)]

update_suggestion(form, cached) ==
    IF form.active # "Composer" THEN clear_suggestion(form)
    ELSE IF form.autocomplete_disabled \/ Len(form.composer) < 2
    THEN clear_suggestion(form)
    ELSE LET current_lower == to_lowercase(form.composer)
             hits == {i \in 1..Len(cached) :
                         starts_with(to_lowercase(cached[i]), current_lower)}
         IN  IF hits = {} THEN [form EXCEPT !.suggestion = NoText]
             ELSE LET candidate == cached[CHOOSE i \in hits : \A j \in hits : i <= j]
                  IN  IF Len(candidate) = Len(form.composer)
                         /\ to_lowercase(candidate) = current_lower
                      THEN [form EXCEPT !.suggestion = NoText]
                      ELSE [form EXCEPT !.suggestion = SomeText(candidate)]

\* Option<String>: the candidate's characters past the typed ones, if any
suggestion_suffix(form) ==
    IF ~form.suggestion.some \/ Len(form.suggestion.v) <= Len(form.composer)
    THEN NoText
    ELSE SomeText(SubSeq(form.suggestion.v, Len(form.composer) + 1,
                         Len(form.suggestion.v)))

\* accept_suggestion leaving autocomplete enabled
accept_suggestion_enabled(form) ==
    IF suggestion_suffix(form).some /\ form.suggestion.some
    THEN [accepted |-> TRUE,
          form |-> [form EXCEPT !.composer = form.suggestion.v,
                                !.suggestion = NoText]]
    ELSE [accepted |-> FALSE, form |-> form]

\* [accepted, form]
accept_suggestion(form) ==
    IF suggestion_suffix(form).some /\ form.suggestion.some
    THEN [accepted |-> TRUE,
          form |-> [form EXCEPT !.composer = form.suggestion.v,
                                !.autocomplete_disabled = TRUE,
                                !.suggestion = NoText]]
    ELSE [accepted |-> FALSE, form |-> form]

\* cancel_autocomplete finding nothing to cancel
cancel_autocomplete_never(form) == [cancelled |-> FALSE, form |-> form]

\* cancel_autocomplete dropping the suggestion only
cancel_autocomplete_keeping(form) ==
    IF form.active = "Composer" /\ form.suggestion.some
    THEN [cancelled |-> TRUE, form |-> [form EXCEPT !.suggestion = NoText]]
    ELSE [cancelled |-> FALSE, form |-> form]

\* [cancelled, form]
cancel_autocomplete(form) ==
    IF form.active = "Composer" /\ form.suggestion.some
    THEN [cancelled |-> TRUE,
          form |-> [form EXCEPT !.autocomplete_disabled = TRUE,
                                !.suggestion = NoText]]
    ELSE [cancelled |-> FALSE, form |-> form]

has_active_suggestion(form) == form.active = "Composer" /\ form.suggestion.some

ConfirmToPrintExit_new(exit_app) == [exit_app |-> exit_app, selection |-> "Apply"]

ConfirmToPrintExit_next(c) ==
    [c EXCEPT !.selection = CASE @ = "Apply" -> "Discard"
                              [] @ = "Discard" -> "Cancel"
                              [] OTHER -> "Apply"]

ConfirmToPrintExit_previous(c) ==
    [c EXCEPT !.selection = CASE @ = "Apply" -> "Cancel"
                              [] @ = "Discard" -> "Apply"
                              [] OTHER -> "Discard"]

-----------------------------------------------------------------------------
(* ui/app.rs: Screen, Mode and the App helpers *)

GRID_COLUMNS == 4

Screen_Binders == [kind |-> "Binders"]

Normal == [kind |-> "Normal"]
AddingBinder(form) == [kind |-> "AddingBinder", form |-> form]
EditingBinder(id, form) == [kind |-> "EditingBinder", id |-> id, form |-> form]
ConfirmBinderDelete(confirm) == [kind |-> "ConfirmBinderDelete", confirm |-> confirm]
EditingSong(song_id, form) ==
    [kind |-> "EditingSong", song_id |-> song_id, form |-> form]
ConfirmSongRemove(binder_id, song) ==
    [kind |-> "ConfirmSongRemove",
     confirm |-> [binder_id |-> binder_id, song |-> song]]
SelectingSong(state) == [kind |-> "SelectingSong", state |-> state]
ConfirmSongDelete(song) == [kind |-> "ConfirmSongDelete", confirm |-> [song |-> song]]
CreatingSong(binder_id, form) ==
    [kind |-> "CreatingSong", binder_id |-> binder_id, form |-> form]
ConfirmToPrintExit(confirm) == [kind |-> "ConfirmToPrintExit", confirm |-> confirm]
Searching(state) == [kind |-> "Searching", state |-> state]

SearchState(target, query) == [target |-> target, query |-> query]
\* Option<SearchState>
NoSearch == [some |-> FALSE, state |-> SearchState("", <<>>)]
SomeSearch(state) == [some |-> TRUE, state |-> state]

\* The ? operator: continue with K on Ok, return the Err otherwise
Try(r, K(_)) == IF r.ok THEN K(r) ELSE Err(r.a, r.err)

reload_composers(a) ==
    Try(fetch_composers(a), LAMBDA r : Ok([r.a EXCEPT !.composers = r.v], 0))

\* reload_binders without its clamp of `selected` to the new length
reload_binders_unclamped(a, focus_id) ==
    Try(fetch_binders(a), LAMBDA r :
        LET b == [r.a EXCEPT !.binders = r.v]
            hits == {i \in 1..Len(r.v) : r.v[i].id = focus_id}
        IN  IF Len(r.v) = 0 THEN Ok([b EXCEPT !.selected = 0], 0)
            ELSE IF focus_id # NoId /\ hits # {}
            THEN Ok([b EXCEPT !.selected = (CHOOSE i \in hits : TRUE) - 1], 0)
            ELSE Ok(b, 0))

reload_binders(a, focus_id) ==
    Try(fetch_binders(a), LAMBDA r :
        LET b == [r.a EXCEPT !.binders = r.v]
            hits == {i \in 1..Len(r.v) : r.v[i].id = focus_id}
        IN  IF Len(r.v) = 0 THEN Ok([b EXCEPT !.selected = 0], 0)
            ELSE IF focus_id # NoId /\ hits # {}
            THEN Ok([b EXCEPT !.selected = (CHOOSE i \in hits : TRUE) - 1], 0)
            ELSE IF b.selected >= Len(r.v)
            THEN Ok([b EXCEPT !.selected = SatSub(Len(r.v), 1)], 0)
            ELSE Ok(b, 0))

open_binder_view(a, binder) ==
    Try(fetch_songs_for_binder(a, binder.id), LAMBDA r :
        Ok([r.a EXCEPT !.screen = SongScreen_new(binder, r.v)], 0))

\* Clamping into 0..n-1 where rem_euclid wraps
rem_clamped(x, n) == IF x < 0 THEN 0 ELSE IF x >= n THEN n - 1 ELSE x

\* isize::rem_euclid for a positive modulus
rem_euclid(x, n) == x % n

open_relative_binder(a, offset) ==
    IF Len(a.binders) = 0 \/ a.screen.kind # "Songs" THEN Ok(a, 0)
    ELSE LET current_id == a.screen.binder.id
             \* sort_by_key is stable and the numbers are those of the cache
             before(b) == Cardinality({c \in 1..Len(a.binders) :
                              \/ a.binders[c].number < a.binders[b].number
                              \/ a.binders[c].number = a.binders[b].number /\ c < b})
             at(pos) == a.binders[CHOOSE b \in 1..Len(a.binders) : before(b) = pos]
             len == Len(a.binders)
             found == {p \in 0..(len - 1) : at(p).id = current_id}
             current_pos == IF found = {} THEN 0
                            ELSE CHOOSE p \in found : \A q \in found : p <= q
             new_pos == rem_euclid(current_pos + offset, len)
             target == at(new_pos)
             idxs == {i \in 1..len : a.binders[i].id = target.id}
             b == IF idxs = {} THEN a
                  ELSE [a EXCEPT !.selected =
                           (CHOOSE i \in idxs : \A j \in idxs : i <= j) - 1]
         IN  open_binder_view(b, target)

open_song_manager(a) ==
    Try(fetch_all_songs(a), LAMBDA r1 :
        Try(reload_composers(r1.a), LAMBDA r2 :
            Ok([r2.a EXCEPT !.screen = SongManagerScreen_new(r1.v)], 0)))

\* The song_totals update pushing a new entry without looking for the song's
CountMissing_always_push(song_totals, missing) ==
    song_totals \o [k \in 1..Len(missing) |-> SongNeeded(missing[k].song, 1)]

\* The inner loop of open_to_print_view: one MissingSong per director song
\* the binder lacks, and the running song_totals
RECURSIVE CountMissing(_, _)
CountMissing(song_totals, missing) ==
    IF Len(missing) = 0 THEN song_totals
    ELSE LET song == missing[1].song
             hits == {i \in 1..Len(song_totals) : song_totals[i].song.id = song.id}
             next == IF hits = {} THEN Append(song_totals, SongNeeded(song, 1))
                     ELSE LET k == CHOOSE i \in hits : \A j \in hits : i <= j
                          IN  [song_totals EXCEPT ![k].needed = @ + 1]
         IN  CountMissing(next, Tail(missing))

\* The outer loop of open_to_print_view over the cached binders from index i
RECURSIVE ReportBinders(_, _, _, _, _, _)
ReportBinders(a, director, director_songs, i, binder_reports, song_totals) ==
    IF i > Len(a.binders)
    THEN Ok(a, [binder_reports |-> binder_reports, song_totals |-> song_totals])
    ELSE LET binder == a.binders[i]
         IN  IF binder.id = director.id
             THEN ReportBinders(a, director, director_songs, i + 1,
                                binder_reports, song_totals)
             ELSE Try(fetch_songs_for_binder(a, binder.id), LAMBDA r :
                     LET song_ids == {r.v[k].id : k \in 1..Len(r.v)}
                         lacking == SelectSeq(director_songs,
                                        LAMBDA s : s.id \notin song_ids)
                         missing == [k \in 1..Len(lacking) |->
                                        MissingSong(lacking[k], FALSE)]
                     IN  ReportBinders(r.a, director, director_songs, i + 1,
                             IF Len(missing) = 0 THEN binder_reports
                             ELSE Append(binder_reports, BinderReport(binder, missing)),
                             CountMissing(song_totals, missing)))

open_to_print_view(a) ==
    LET zeros == {i \in 1..Len(a.binders) : a.binders[i].number = 0}
    IN  IF zeros = {}
        THEN Ok([a EXCEPT !.screen = ToPrintScreen_missing_director], 0)
        ELSE LET director == a.binders[CHOOSE i \in zeros : \A j \in zeros : i <= j]
             IN  Try(fetch_songs_for_binder(a, director.id), LAMBDA r1 :
                     Try(ReportBinders(r1.a, director, r1.v, 1, <<>>, <<>>), LAMBDA r2 :
                         Ok([r2.a EXCEPT !.screen =
                                ToPrintScreen_with_data(r2.v.binder_reports,
                                                        r2.v.song_totals)], 0)))

refresh_song_screen(a) ==
    IF a.screen.kind # "Songs" THEN Ok(a, 0)
    ELSE Try(fetch_songs_for_binder(a, a.screen.binder.id), LAMBDA r :
             Ok([r.a EXCEPT !.screen = SongScreen_set_songs(@, r.v)], 0))

refresh_song_manager(a) ==
    IF a.screen.kind # "SongManager" THEN reload_composers(a)
    ELSE Try(fetch_all_songs(a), LAMBDA r :
             reload_composers([r.a EXCEPT !.screen = SongManager_set_songs(@, r.v)]))

\* The for loop of apply_to_print_changes from assignment i; v is `applied`
RECURSIVE ApplyAssignments(_, _, _, _)
ApplyAssignments(a, assignments, i, applied) ==
    IF i > Len(assignments) THEN Ok(a, applied)
    ELSE Try(add_song_to_binder(a, assignments[i][1], assignments[i][2]), LAMBDA r :
             ApplyAssignments(r.a, assignments, i + 1, applied + 1))

\* apply_to_print_changes leaving the last assignment out
apply_to_print_changes_but_last(a, assignments) ==
    Try(ApplyAssignments(a, SubSeq(assignments, 1, Len(assignments) - 1), 1, 0),
        LAMBDA r :
            IF r.v > 0
            THEN Try(refresh_song_manager(r.a), LAMBDA r1 :
                     Try(refresh_song_screen(r1.a), LAMBDA r2 : Ok(r2.a, r.v)))
            ELSE Ok(r.a, r.v))

apply_to_print_changes(a, assignments) ==
    Try(ApplyAssignments(a, assignments, 1, 0), LAMBDA r :
        IF r.v > 0
        THEN Try(refresh_song_manager(r.a), LAMBDA r1 :
                 Try(refresh_song_screen(r1.a), LAMBDA r2 : Ok(r2.a, r.v)))
        ELSE Ok(r.a, r.v))

next_binder_number(a) ==
    IF Len(a.binders) = 0 THEN 1
    ELSE (CHOOSE n \in {a.binders[i].number : i \in 1..Len(a.binders)} :
             \A i \in 1..Len(a.binders) : a.binders[i].number <= n) + 1

\* Option<&Binder>: [some, binder]
current_binder(a) ==
    IF a.selected < Len(a.binders)
    THEN [some |-> TRUE, binder |-> At(a.binders, a.selected)]
    ELSE [some |-> FALSE, binder |-> Binder(NoId, 0, <<>>)]

binder_count(a) == Len(a.binders)

move_horizontal(a, offset) ==
    IF a.screen.kind = "Binders" /\ Len(a.binders) # 0
       /\ a.selected + offset \in 0..(binder_count(a) - 1)
    THEN [a EXCEPT !.selected = a.selected + offset]
    ELSE a

move_vertical(a, offset) ==
    IF a.screen.kind = "Binders" /\ Len(a.binders) # 0
       /\ a.selected + offset * GRID_COLUMNS \in 0..(binder_count(a) - 1)
    THEN [a EXCEPT !.selected = a.selected + offset * GRID_COLUMNS]
    ELSE a

\* Result<()> whose err is what form.parse_inputs or the gateway reported
save_new_binder(a, form) ==
    LET p == BinderForm_parse_inputs(form)
    IN  IF ~p.ok THEN Err(a, p.err)
        ELSE Try(create_binder(a, p.number, p.label), LAMBDA r1 :
                 Try(reload_binders(r1.a, r1.v.id), LAMBDA r2 :
                     Ok(set_status(r2.a, Msg("Added Binder {:02}.", r1.v.number),
                                   "Info"), 0)))

\* save_existing_binder reloading without the id to focus
save_existing_binder_unfocused(a, id, form) ==
    LET p == BinderForm_parse_inputs(form)
    IN  IF ~p.ok THEN Err(a, p.err)
        ELSE Try(update_binder(a, id, p.number, p.label), LAMBDA r1 :
                 Try(reload_binders(r1.a, NoId), LAMBDA r2 :
                     LET b == set_status(r2.a, Msg("Updated Binder {:02}.", p.number),
                                         "Info")
                     IN  IF b.screen.kind = "Songs" /\ b.screen.binder.id = id
                         THEN Ok([b EXCEPT !.screen.binder.label = p.label,
                                           !.screen.binder.number = p.number], 0)
                         ELSE Ok(b, 0)))

save_existing_binder(a, id, form) ==
    LET p == BinderForm_parse_inputs(form)
    IN  IF ~p.ok THEN Err(a, p.err)
        ELSE Try(update_binder(a, id, p.number, p.label), LAMBDA r1 :
                 Try(reload_binders(r1.a, id), LAMBDA r2 :
                     LET b == set_status(r2.a, Msg("Updated Binder {:02}.", p.number),
                                         "Info")
                     IN  IF b.screen.kind = "Songs" /\ b.screen.binder.id = id
                         THEN Ok([b EXCEPT !.screen.binder.label = p.label,
                                           !.screen.binder.number = p.number], 0)
                         ELSE Ok(b, 0)))

\* perform_delete without its delete_binder call
perform_delete_reload_only(a, confirm) ==
    Try(reload_binders(a, NoId), LAMBDA r2 :
        Ok(set_status([r2.a EXCEPT !.screen = Screen_Binders],
                      Msg("Deleted Binder {:02}.", confirm.number), "Info"), 0))

perform_delete(a, confirm) ==
    Try(delete_binder(a, confirm.id), LAMBDA r1 :
        Try(reload_binders(r1.a, NoId), LAMBDA r2 :
            Ok(set_status([r2.a EXCEPT !.screen = Screen_Binders],
                          Msg("Deleted Binder {:02}.", confirm.number), "Info"), 0)))

-----------------------------------------------------------------------------
(* ui/app.rs: the key handlers.  A KeyCode is a string: a one-character    *)
(* string is KeyCode::Char of that character, a longer one names the key.  *)

CharKeys ==
    {"q", "p", "P", "s", "S", "e", "E", "t", "T", "f", "l", "L", "y", "Y", "n",
     "N", "+", "-", " ", "a", "A", "b", "B", "x"} \cup Digits \cup ControlChars

\* open::that: the environment decides whether the opener succeeds
open_link(a, link) ==
    LET b == Called(a, "open_link", 0, 0)
    IN  IF Fails(a) THEN Err(b, Msg("Failed to open link: {err}", 0)) ELSE Ok(b, 0)

\* The KeyCode::Enter arm of the list screens and of search: open the link
\* of `song` (NoSong: no current song) and report the outcome
OpenSongLink(a, song) ==
    IF song.id = NoId THEN a
    ELSE IF trim(song.link) = <<>>
    THEN set_status(a, Msg("This song does not have a link.", 0), "Error")
    ELSE LET r == open_link(a, trim(song.link))
         IN  IF r.ok THEN set_status(r.a, Msg("Opened {}.", song.id), "Info")
             ELSE set_status(r.a, r.err, "Error")

handle_normal_key_Binders(a, code) ==
    LET cur == current_binder(a)
    IN  CASE code \in {"q", "Esc"} -> Ok([a EXCEPT !.exit = TRUE], Normal)
          [] code = "Left" -> Ok(move_horizontal(a, -1), Normal)
          [] code = "Right" -> Ok(move_horizontal(a, 1), Normal)
          [] code = "Up" -> Ok(move_vertical(a, -1), Normal)
          [] code = "Down" -> Ok(move_vertical(a, 1), Normal)
          [] code = "Enter" ->
               IF cur.some
               THEN Try(open_binder_view(a, cur.binder), LAMBDA r : Ok(r.a, Normal))
               ELSE Ok(set_status(a, Msg("No binder selected.", 0), "Error"), Normal)
          [] code \in {"s", "S"} ->
               Try(open_song_manager(clear_status(a)), LAMBDA r : Ok(r.a, Normal))
          [] code \in {"p", "P"} ->
               Try(open_to_print_view(clear_status(a)), LAMBDA r : Ok(r.a, Normal))
          [] code = "+" ->
               Ok(clear_status(a),
                  AddingBinder(BinderForm_focus(
                      BinderForm_with_number(next_binder_number(a)), "Number")))
          [] code = "-" ->
               IF cur.some
               THEN Ok(clear_status(a),
                       ConfirmBinderDelete(ConfirmBinderDelete_from(cur.binder)))
               ELSE Ok(set_status(a, Msg("No binder selected to remove.", 0), "Error"),
                       Normal)
          [] code \in {"e", "E"} ->
               IF cur.some
               THEN Ok(clear_status(a),
                       EditingBinder(cur.binder.id, BinderForm_from_binder(cur.binder)))
               ELSE Ok(set_status(a, Msg("No binder selected to edit.", 0), "Error"),
                       Normal)
          [] OTHER -> Ok(a, Normal)

handle_normal_key_Songs(a, code) ==
    LET songs == a.screen
        song == current_song(songs)
        moved(s) == Ok([a EXCEPT !.screen = s], Normal)
    IN  CASE code = "q" -> Ok([a EXCEPT !.exit = TRUE], Normal)
          [] code = "Esc" -> Ok(clear_status([a EXCEPT !.screen = Screen_Binders]), Normal)
          [] code = "Up" -> moved(move_selection(songs, -1))
          [] code = "Down" -> moved(move_selection(songs, 1))
          [] code = "PageUp" -> moved(move_selection(songs, -5))
          [] code = "PageDown" -> moved(move_selection(songs, 5))
          [] code = "Home" -> moved(select_first(songs))
          [] code = "End" -> moved(select_last(songs))
          [] code = "f" -> Ok(a, Searching(SearchState("Songs", <<>>)))
          [] code \in {"s", "S"} ->
               Try(open_song_manager(a), LAMBDA r : Ok(r.a, Normal))
          [] code \in {"p", "P"} ->
               Try(open_to_print_view(a), LAMBDA r : Ok(r.a, Normal))
          [] code = "Tab" ->
               Try(open_relative_binder(clear_status(a), 1), LAMBDA r : Ok(r.a, Normal))
          [] code = "BackTab" ->
               Try(open_relative_binder(clear_status(a), -1), LAMBDA r : Ok(r.a, Normal))
          [] code = "Enter" -> Ok(OpenSongLink(a, song), Normal)
          [] code = "+" ->
               Try(AddSongState_load(a, songs.binder.id), LAMBDA r :
                   IF Len(r.v.items) = 1
                   THEN Ok(r.a, CreatingSong(songs.binder.id, SongForm_default))
                   ELSE Ok(r.a, SelectingSong(r.v)))
          [] code = "-" ->
               IF song.id # NoId THEN Ok(a, ConfirmSongRemove(songs.binder.id, song))
               ELSE Ok(set_status(a, Msg("No song selected to remove.", 0), "Error"),
                       Normal)
          [] code \in {"e", "E"} ->
               IF song.id # NoId
               THEN Ok(a, EditingSong(song.id, SongForm_from_song(song)))
               ELSE Ok(set_status(a, Msg("No song selected to edit.", 0), "Error"),
                       Normal)
          [] OTHER -> Ok(a, Normal)

handle_normal_key_SongManager(a, code) ==
    LET manager == a.screen
        song == current_song(manager)
        moved(s) == Ok([a EXCEPT !.screen = s], Normal)
    IN  CASE code = "q" -> Ok([a EXCEPT !.exit = TRUE], Normal)
          [] code \in {"Esc", "s", "S"} ->
               Ok([clear_status(a) EXCEPT !.screen = Screen_Binders], Normal)
          [] code = "f" -> Ok(a, Searching(SearchState("SongManager", <<>>)))
          [] code = "Up" -> moved(move_selection(manager, -1))
          [] code = "Down" -> moved(move_selection(manager, 1))
          [] code = "PageUp" -> moved(move_selection(manager, -5))
          [] code = "PageDown" -> moved(move_selection(manager, 5))
          [] code = "Home" -> moved(select_first(manager))
          [] code = "End" -> moved(select_last(manager))
          [] code = "Enter" -> Ok(OpenSongLink(a, song), Normal)
          [] code = "+" -> Ok(a, CreatingSong(NoId, SongForm_default))
          [] code = "-" ->
               IF song.id # NoId THEN Ok(a, ConfirmSongDelete(song))
               ELSE Ok(set_status(a, Msg("No song selected to delete.", 0), "Error"),
                       Normal)
          [] code \in {"e", "E"} ->
               IF song.id # NoId
               THEN Ok(a, EditingSong(song.id, SongForm_from_song(song)))
               ELSE Ok(set_status(a, Msg("No song selected to edit.", 0), "Error"),
                       Normal)
          [] code \in {"p", "P"} ->
               Try(open_to_print_view(a), LAMBDA r : Ok(r.a, Normal))
          [] code \in {"l", "L"} ->
               LET s == toggle_show_no_link(manager)
               IN  Ok(set_status([a EXCEPT !.screen = s],
                                 IF s.show_only_no_link
                                 THEN Msg("Showing songs without links.", 0)
                                 ELSE Msg("Showing all songs.", 0), "Info"),
                      Normal)
          [] OTHER -> Ok(a, Normal)

handle_normal_key_ToPrint(a, code) ==
    LET report == a.screen
        moved(s) == Ok([a EXCEPT !.screen = s], Normal)
    IN  CASE code = "q" ->
               IF has_pending_changes(report)
               THEN Ok(a, ConfirmToPrintExit(ConfirmToPrintExit_new(TRUE)))
               ELSE Ok([a EXCEPT !.exit = TRUE], Normal)
          [] code \in {"Esc", "p", "P"} ->
               IF has_pending_changes(report)
               THEN Ok(a, ConfirmToPrintExit(ConfirmToPrintExit_new(FALSE)))
               ELSE Ok([clear_status(a) EXCEPT !.screen = Screen_Binders], Normal)
          [] code \in {"Tab", "BackTab", "t", "T"} -> moved(toggle_mode(report))
          [] code = "Up" -> moved(ToPrint_move_selection(report, -1))
          [] code = "Down" -> moved(ToPrint_move_selection(report, 1))
          [] code = "PageUp" -> moved(ToPrint_move_selection(report, -5))
          [] code = "PageDown" -> moved(ToPrint_move_selection(report, 5))
          [] code = "Home" -> moved(ToPrint_select_first(report))
          [] code = "End" -> moved(ToPrint_select_last(report))
          [] code = " " ->
               LET t == toggle_current(report)
                   b == [a EXCEPT !.screen = t.s]
               IN  IF ~t.some THEN Ok(b, Normal)
                   ELSE IF t.checked
                   THEN Ok(set_status(b, Msg("Marked song as added.", 0), "Info"), Normal)
                   ELSE Ok(set_status(b, Msg("Song unchecked.", 0), "Info"), Normal)
          [] OTHER -> Ok(a, Normal)

\* The KeyCode::Char arm of both binder forms
BinderFormTyped(form, ch) ==
    LET p == BinderForm_push_char(form, ch)
    IN  IF p.pushed THEN [p.form EXCEPT !.error = NoMsg] ELSE p.form

\* The Err arm of a form's Enter: the message on the form and the status line
FormError(a, form, message) ==
    [a |-> set_status(a, message, "Error"), form |-> [form EXCEPT !.error = message]]

handle_add_binder(a, code, form) ==
    CASE code = "Esc" ->
           Ok(set_status(a, Msg("Add binder cancelled.", 0), "Info"), Normal)
      [] code \in {"Tab", "BackTab"} ->
           Ok(a, AddingBinder(BinderForm_toggle_field(form)))
      [] code = "Backspace" -> Ok(a, AddingBinder(BinderForm_backspace(form)))
      [] code = "Enter" ->
           LET r == save_new_binder(a, form)
               e == FormError(r.a, form, surface_error(r))
           IN  IF r.ok THEN Ok(r.a, Normal) ELSE Ok(e.a, AddingBinder(e.form))
      [] code \in CharKeys -> Ok(a, AddingBinder(BinderFormTyped(form, code)))
      [] OTHER -> Ok(a, AddingBinder(form))

handle_edit_binder(a, code, id, form) ==
    CASE code = "Esc" -> Ok(set_status(a, Msg("Edit cancelled.", 0), "Info"), Normal)
      [] code \in {"Tab", "BackTab"} ->
           Ok(a, EditingBinder(id, BinderForm_toggle_field(form)))
      [] code = "Backspace" -> Ok(a, EditingBinder(id, BinderForm_backspace(form)))
      [] code = "Enter" ->
           LET r == save_existing_binder(a, id, form)
               e == FormError(r.a, form, surface_error(r))
           IN  IF r.ok THEN Ok(r.a, Normal) ELSE Ok(e.a, EditingBinder(id, e.form))
      [] code \in CharKeys -> Ok(a, EditingBinder(id, BinderFormTyped(form, code)))
      [] OTHER -> Ok(a, EditingBinder(id, form))

\* handle_confirm_binder_delete closing the confirmation when the delete failed
handle_confirm_binder_delete_closing(a, code, confirm) ==
    CASE code \in {"Esc", "n", "N"} ->
           Ok(set_status(a, Msg("Deletion cancelled.", 0), "Info"), Normal)
      [] code \in {"Enter", "y", "Y"} ->
           LET r == perform_delete(a, confirm)
           IN  IF r.ok THEN Ok(r.a, Normal)
               ELSE Ok(set_status(r.a, surface_error(r), "Error"), Normal)
      [] OTHER -> Ok(a, ConfirmBinderDelete(confirm))

handle_confirm_binder_delete(a, code, confirm) ==
    CASE code \in {"Esc", "n", "N"} ->
           Ok(set_status(a, Msg("Deletion cancelled.", 0), "Info"), Normal)
      [] code \in {"Enter", "y", "Y"} ->
           LET r == perform_delete(a, confirm)
           IN  IF r.ok THEN Ok(r.a, Normal)
               ELSE Ok(set_status(r.a, surface_error(r), "Error"),
                       ConfirmBinderDelete(confirm))
      [] OTHER -> Ok(a, ConfirmBinderDelete(confirm))

\* The keys both song forms treat alike (Tab, BackTab, Backspace, Char):
\* the form after the key
SongFormEdited(a, code, form) ==
    CASE code = "Tab" ->
           LET acc == accept_suggestion(form)
               consumed == has_active_suggestion(form) /\ acc.accepted
           IN  update_suggestion(
                   IF consumed THEN acc.form ELSE SongForm_toggle_field(form),
                   a.composers)
      [] code = "BackTab" -> update_suggestion(SongForm_toggle_field(form), a.composers)
      [] code = "Backspace" -> update_suggestion(SongForm_backspace(form), a.composers)
      [] code \in CharKeys ->
           LET p == SongForm_push_char(form, code)
           IN  IF p.pushed
               THEN update_suggestion([p.form EXCEPT !.error = NoMsg], a.composers)
               ELSE p.form
      [] OTHER -> form

\* The tail of handle_edit_song once keep_open is false
\* The close of the song edit form without the stashed search
CloseEditSong_to_normal(a) == Ok(a, Normal)

CloseEditSong(a) ==
    IF a.saved_search.some
    THEN Ok([a EXCEPT !.saved_search = NoSearch], Searching(a.saved_search.state))
    ELSE Ok(a, Normal)

handle_edit_song(a, code, song_id, form) ==
    CASE code = "Esc" ->
           LET c == cancel_autocomplete(form)
           IN  IF c.cancelled THEN Ok(a, EditingSong(song_id, c.form))
               ELSE CloseEditSong(set_status(a, Msg("Edit cancelled.", 0), "Info"))
      [] code = "Enter" ->
           LET p == SongForm_parse_inputs(form)
               r == update_song(a, song_id, p.title, p.composer, p.link)
               e == IF p.ok THEN FormError(r.a, form, surface_error(r))
                    ELSE FormError(a, form, p.err)
           IN  IF p.ok /\ r.ok
               THEN Try(refresh_song_screen(r.a), LAMBDA r1 :
                        Try(refresh_song_manager(r1.a), LAMBDA r2 :
                            CloseEditSong(set_status(r2.a, Msg("Song updated.", 0),
                                                     "Info"))))
               ELSE Ok(e.a, EditingSong(song_id, e.form))
      [] OTHER -> Ok(a, EditingSong(song_id, SongFormEdited(a, code, form)))

handle_confirm_song_remove(a, code, confirm) ==
    CASE code \in {"Esc", "n", "N"} ->
           Ok(set_status(a, Msg("Removal cancelled.", 0), "Info"), Normal)
      [] code \in {"Enter", "y", "Y"} ->
           LET r == remove_song_from_binder(a, confirm.binder_id, confirm.song.id)
           IN  IF r.ok
               THEN Try(refresh_song_screen(r.a), LAMBDA r1 :
                        Ok(set_status(r1.a, Msg("Song removed from binder.", 0), "Info"),
                           Normal))
               ELSE Ok(set_status(r.a, surface_error(r), "Error"),
                       ConfirmSongRemove(confirm.binder_id, confirm.song))
      [] OTHER -> Ok(a, ConfirmSongRemove(confirm.binder_id, confirm.song))

handle_confirm_song_delete(a, code, confirm) ==
    CASE code \in {"Esc", "n", "N"} ->
           Ok(set_status(a, Msg("Deletion cancelled.", 0), "Info"), Normal)
      [] code \in {"Enter", "y", "Y"} ->
           LET r == delete_song(a, confirm.song.id)
           IN  IF r.ok
               THEN Try(refresh_song_manager(r.a), LAMBDA r1 :
                        Try(refresh_song_screen(r1.a), LAMBDA r2 :
                            Ok(set_status(r2.a, Msg("Song deleted.", 0), "Info"),
                               Normal)))
               ELSE Ok(set_status(r.a, surface_error(r), "Error"),
                       ConfirmSongDelete(confirm.song))
      [] OTHER -> Ok(a, ConfirmSongDelete(confirm.song))

\* The for loop of handle_select_song over the checked songs from index i
RECURSIVE AddSelections(_, _, _, _, _)
AddSelections(a, state, selections, i, added) ==
    IF i > Len(selections)
    THEN IF added > 0
         THEN Try(refresh_song_screen(a), LAMBDA r :
                  Ok(set_status(r.a,
                                IF added = 1 THEN Msg("Song added to binder.", 0)
                                ELSE Msg("Added {added} songs to binder.", added),
                                "Info"),
                     Normal))
         ELSE Ok(a, Normal)
    ELSE LET r == add_song_to_binder(a, state.binder_id, selections[i].id)
             b == set_status(r.a, surface_error(r), "Error")
         IN  IF r.ok THEN AddSelections(r.a, state, selections, i + 1, added + 1)
             ELSE IF added > 0
             THEN Try(refresh_song_screen(b), LAMBDA r1 : Ok(r1.a, Normal))
             ELSE Ok(b, SelectingSong(state))

handle_select_song(a, code, state) ==
    LET stay(s) == Ok(a, SelectingSong(s))
        selections == checked_songs(state)
        cur == current_item(state)
    IN  CASE code = "Esc" -> Ok(a, Normal)
          [] code = "Up" -> stay(AddSong_move_selection(state, -1))
          [] code = "Down" -> stay(AddSong_move_selection(state, 1))
          [] code = "PageUp" -> stay(AddSong_move_selection(state, -5))
          [] code = "PageDown" -> stay(AddSong_move_selection(state, 5))
          [] code = "Home" -> stay(AddSong_select_first(state))
          [] code = "End" -> stay(AddSong_select_last(state))
          [] code = " " -> stay(toggle_current_selection(state))
          [] code = "Enter" ->
               IF Len(selections) # 0 THEN AddSelections(a, state, selections, 1, 0)
               ELSE IF ~cur.some THEN Ok(a, Normal)
               ELSE IF cur.item.create_new
               THEN Ok(a, CreatingSong(state.binder_id, SongForm_default))
               ELSE LET r == add_song_to_binder(a, state.binder_id, cur.item.song.id)
                    IN  IF r.ok
                        THEN Try(refresh_song_screen(r.a), LAMBDA r1 :
                                 Ok(set_status(r1.a, Msg("Song added to binder.", 0),
                                               "Info"), Normal))
                        ELSE Ok(set_status(r.a, surface_error(r), "Error"),
                                SelectingSong(state))
          [] OTHER -> stay(state)

handle_search(a, code, state) ==
    LET list == a.screen
        stay(s) == Ok([a EXCEPT !.screen = s], Searching(state))
        query == CASE code = "Backspace" -> pop(state.query)
                   [] code \in CharKeys /\ ~is_control(code) -> Append(state.query, code)
                   [] OTHER -> state.query
        song == current_song(list)
    IN  IF a.screen.kind # state.target THEN Ok(a, Normal)
        ELSE CASE code = "Esc" -> Ok([a EXCEPT !.screen = set_filter(list, NoText)], Normal)
               [] code = "Up" -> stay(move_selection(list, -1))
               [] code = "Down" -> stay(move_selection(list, 1))
               [] code = "PageUp" -> stay(move_selection(list, -5))
               [] code = "PageDown" -> stay(move_selection(list, 5))
               [] code = "Home" -> stay(select_first(list))
               [] code = "End" -> stay(select_last(list))
               [] code = "Enter" ->
                    Ok(OpenSongLink(a, current_song(list)), Searching(state))
               [] code = "U+0005" ->
                    IF song.id # NoId
                    THEN Ok(a, EditingSong(song.id, SongForm_from_song(song)))
                    ELSE Ok(set_status(a, Msg("No song selected to edit.", 0), "Error"),
                            Searching(state))
               [] OTHER ->
                    Ok([a EXCEPT !.screen =
                           set_filter(list, IF trim(query) = <<>> THEN NoText
                                            ELSE SomeText(query))],
                       Searching(SearchState(state.target, query)))

\* The end of the Apply and Discard arms: quit, or back to the binder grid
LeaveToPrint(a, confirm) ==
    IF confirm.exit_app THEN [a EXCEPT !.exit = TRUE]
    ELSE [a EXCEPT !.screen = Screen_Binders]

\* Enter on ConfirmPrintChoice::Apply
\* Enter on Apply closing the confirmation when the apply fails
ConfirmPrintChoice_Apply_closing(a, confirm) ==
    LET assignments == IF a.screen.kind = "ToPrint" THEN pending_assignments(a.screen)
                       ELSE <<>>
        r == apply_to_print_changes(a, assignments)
    IN  IF r.ok
        THEN Ok(LeaveToPrint(set_status(r.a,
                                 IF r.v = 0 THEN Msg("No changes to apply.", 0)
                                 ELSE Msg("Applied {applied} song{plural}.", r.v),
                                 "Info"),
                             confirm),
                Normal)
        ELSE Ok(set_status(r.a, surface_error(r), "Error"), Normal)

ConfirmPrintChoice_Apply(a, confirm) ==
    LET assignments == IF a.screen.kind = "ToPrint" THEN pending_assignments(a.screen)
                       ELSE <<>>
        r == apply_to_print_changes(a, assignments)
    IN  IF r.ok
        THEN Ok(LeaveToPrint(set_status(r.a,
                                 IF r.v = 0 THEN Msg("No changes to apply.", 0)
                                 ELSE Msg("Applied {applied} song{plural}.", r.v),
                                 "Info"),
                             confirm),
                Normal)
        ELSE Ok(set_status(r.a, surface_error(r), "Error"), ConfirmToPrintExit(confirm))

\* The Discard arm going on to apply as the Apply arm does
ConfirmPrintChoice_Discard_applying(a, confirm) == ConfirmPrintChoice_Apply(a, confirm)

\* Enter on ConfirmPrintChoice::Discard
ConfirmPrintChoice_Discard(a, confirm) ==
    IF confirm.exit_app THEN Ok([a EXCEPT !.exit = TRUE], Normal)
    ELSE Ok([set_status(a, Msg("Discarded pending changes.", 0), "Info")
                EXCEPT !.screen = Screen_Binders], Normal)

handle_confirm_to_print_exit(a, code, confirm) ==
    CASE code = "Esc" -> Ok(a, Normal)
      [] code \in {"Left", "Up"} ->
           Ok(a, ConfirmToPrintExit(ConfirmToPrintExit_previous(confirm)))
      [] code \in {"Right", "Down", "Tab"} ->
           Ok(a, ConfirmToPrintExit(ConfirmToPrintExit_next(confirm)))
      [] code = "Enter" /\ confirm.selection = "Apply" ->
           ConfirmPrintChoice_Apply(a, confirm)
      [] code = "Enter" /\ confirm.selection = "Discard" ->
           ConfirmPrintChoice_Discard(a, confirm)
      [] code = "Enter" /\ confirm.selection = "Cancel" -> Ok(a, Normal)
      [] OTHER -> Ok(a, ConfirmToPrintExit(confirm))

handle_create_song(a, code, binder_id, form) ==
    CASE code = "Esc" ->
           LET c == cancel_autocomplete(form)
           IN  IF c.cancelled THEN Ok(a, CreatingSong(binder_id, c.form))
               ELSE Ok(set_status(a, Msg("Song creation cancelled.", 0), "Info"), Normal)
      [] code = "Enter" ->
           LET p == SongForm_parse_inputs(form)
               r == create_song(a, p.title, p.composer, p.link)
               e == IF p.ok THEN FormError(r.a, form, surface_error(r))
                    ELSE FormError(a, form, p.err)
               linked == IF binder_id # NoId
                         THEN Try(add_song_to_binder(r.a, binder_id, r.v.id), LAMBDA r1 :
                                  Try(refresh_song_screen(r1.a), LAMBDA r2 :
                                      Ok(set_status(r2.a,
                                             Msg("Song created and added.", 0), "Info"),
                                         0)))
                         ELSE Ok(set_status(r.a, Msg("Song created.", 0), "Info"), 0)
           IN  IF p.ok /\ r.ok
               THEN Try(linked, LAMBDA r3 :
                        Try(refresh_song_manager(r3.a), LAMBDA r4 : Ok(r4.a, Normal)))
               ELSE Ok(e.a, CreatingSong(binder_id, e.form))
      [] OTHER -> Ok(a, CreatingSong(binder_id, SongFormEdited(a, code, form)))

handle_normal_key(a, code) ==
    CASE a.screen.kind = "Binders" -> handle_normal_key_Binders(a, code)
      [] a.screen.kind = "Songs" -> handle_normal_key_Songs(a, code)
      [] a.screen.kind = "SongManager" -> handle_normal_key_SongManager(a, code)
      [] a.screen.kind = "ToPrint" -> handle_normal_key_ToPrint(a, code)

\* Result<bool>: [ok, a, v]; v is `exit`.  self.mode is taken out (Normal stays
\* in its place) while the handler runs; `?` passes a handler's error on, and
\* only after an Ok is the returned Mode stored.
\* handle_key taking q as the quit key in every Mode
handle_key_q_quits_anywhere(a0, code) ==
    LET m == a0.mode
        a == [a0 EXCEPT !.mode = Normal]
        r == CASE m.kind = "Normal" -> handle_normal_key(a, code)
               [] m.kind = "AddingBinder" -> handle_add_binder(a, code, m.form)
               [] m.kind = "EditingBinder" -> handle_edit_binder(a, code, m.id, m.form)
               [] m.kind = "ConfirmBinderDelete" ->
                    handle_confirm_binder_delete(a, code, m.confirm)
               [] m.kind = "EditingSong" -> handle_edit_song(a, code, m.song_id, m.form)
               [] m.kind = "ConfirmSongRemove" ->
                    handle_confirm_song_remove(a, code, m.confirm)
               [] m.kind = "ConfirmSongDelete" ->
                    handle_confirm_song_delete(a, code, m.confirm)
               [] m.kind = "SelectingSong" -> handle_select_song(a, code, m.state)
               [] m.kind = "CreatingSong" ->
                    handle_create_song(a, code, m.binder_id, m.form)
               [] m.kind = "ConfirmToPrintExit" ->
                    handle_confirm_to_print_exit(a, code, m.confirm)
               [] m.kind = "Searching" -> handle_search(a, code, m.state)
    IN  Try(r, LAMBDA x : Ok([x.a EXCEPT !.mode = x.v], x.a.exit \/ code = "q"))

handle_key(a0, code) ==
    LET m == a0.mode
        a == [a0 EXCEPT !.mode = Normal]
        r == CASE m.kind = "Normal" -> handle_normal_key(a, code)
               [] m.kind = "AddingBinder" -> handle_add_binder(a, code, m.form)
               [] m.kind = "EditingBinder" -> handle_edit_binder(a, code, m.id, m.form)
               [] m.kind = "ConfirmBinderDelete" ->
                    handle_confirm_binder_delete(a, code, m.confirm)
               [] m.kind = "EditingSong" -> handle_edit_song(a, code, m.song_id, m.form)
               [] m.kind = "ConfirmSongRemove" ->
                    handle_confirm_song_remove(a, code, m.confirm)
               [] m.kind = "ConfirmSongDelete" ->
                    handle_confirm_song_delete(a, code, m.confirm)
               [] m.kind = "SelectingSong" -> handle_select_song(a, code, m.state)
               [] m.kind = "CreatingSong" ->
                    handle_create_song(a, code, m.binder_id, m.form)
               [] m.kind = "ConfirmToPrintExit" ->
                    handle_confirm_to_print_exit(a, code, m.confirm)
               [] m.kind = "Searching" -> handle_search(a, code, m.state)
    IN  Try(r, LAMBDA x : Ok([x.a EXCEPT !.mode = x.v], x.a.exit))

\* handle_ctrl_e without its test that the Mode is Searching
handle_ctrl_e_unguarded(a) ==
    LET b == IF a.mode.kind = "Searching"
             THEN [a EXCEPT !.mode = Normal, !.saved_search = SomeSearch(a.mode.state)]
             ELSE [a EXCEPT !.mode = Normal]
        song == IF b.screen.kind \in {"SongManager", "Songs"}
                THEN current_song(b.screen) ELSE NoSong
    IN  IF b.screen.kind \notin {"SongManager", "Songs"} THEN Ok(b, 0)
        ELSE IF song.id # NoId
        THEN Ok([b EXCEPT !.mode = EditingSong(song.id, SongForm_from_song(song))], 0)
        ELSE Ok(set_status(b, Msg("No song selected to edit.", 0), "Error"), 0)

handle_ctrl_e(a) ==
    IF a.mode.kind # "Searching" THEN Ok(a, 0)
    ELSE LET b == [a EXCEPT !.mode = Normal, !.saved_search = SomeSearch(a.mode.state)]
             song == IF b.screen.kind \in {"SongManager", "Songs"}
                     THEN current_song(b.screen) ELSE NoSong
         IN  IF b.screen.kind \notin {"SongManager", "Songs"} THEN Ok(b, 0)
             ELSE IF song.id # NoId
             THEN Ok([b EXCEPT !.mode = EditingSong(song.id, SongForm_from_song(song))],
                     0)
             ELSE Ok(set_status(b, Msg("No song selected to edit.", 0), "Error"), 0)

handle_ctrl_l(a) ==
    IF a.screen.kind # "SongManager" THEN Ok(a, 0)
    ELSE LET s == toggle_show_no_link(a.screen)
         IN  Ok(set_status([a EXCEPT !.screen = s],
                           IF s.show_only_no_link
                           THEN Msg("Showing songs without links.", 0)
                           ELSE Msg("Showing all songs.", 0), "Info"), 0)

-----------------------------------------------------------------------------
(* ui/terminal.rs: run_app delivers one key event at a time *)

\* The App as the handlers see it.  failAt = k makes the k-th gateway (or
\* opener) call of this key's handling fail; 0 lets every call succeed.
App(failAt) ==
    [conn |-> conn, binders |-> binders, selected |-> selected,
     composers |-> composers, screen |-> screen, mode |-> mode,
     status |-> status, saved_search |-> saved_search,
     exit |-> FALSE, failAt |-> failAt, calls |-> <<>>]

\* The text a typed character would be appended to in the current Mode
ActiveText ==
    CASE mode.kind \in {"AddingBinder", "EditingBinder"} ->
           IF mode.form.active = "Number" THEN mode.form.number ELSE mode.form.label
      [] mode.kind \in {"EditingSong", "CreatingSong"} ->
           CASE mode.form.active = "Title" -> mode.form.title
             [] mode.form.active = "Composer" -> mode.form.composer
             [] OTHER -> mode.form.link
      [] mode.kind = "Searching" -> mode.state.query
      [] OTHER -> <<>>

\* The model's bounds on what a key may do: texts stay within MaxLen and the
\* tables grow to no more than MaxBinders and MaxSongs rows.
WithinBounds(code, r) ==
    /\ code \in CharKeys \ ControlChars => Len(ActiveText) < MaxLen
    /\ Cardinality(r.a.conn.binders) > Cardinality(conn.binders) =>
          Cardinality(r.a.conn.binders) <= MaxBinders
    /\ r.a.conn.next_binder_id <= MaxBinderId + 1
    /\ Cardinality(r.a.conn.songs) > Cardinality(conn.songs) =>
          Cardinality(r.a.conn.songs) <= MaxSongs

\* The actions below are handle_key, one per arm of its dispatch (and of
\* handle_normal_key's): Taken is handle_key up to the dispatch, Returned what
\* it does once the arm's handler returned.
Taken(failAt) == [App(failAt) EXCEPT !.mode = Normal]

Returned(r) == Try(r, LAMBDA x : Ok([x.a EXCEPT !.mode = x.v], x.a.exit))

\* The loop body of run_app once handle_key returned r: an Err leaves the
\* loop through `?`, Ok(true) through break
Deliver(r) ==
    /\ conn' = r.a.conn
    /\ binders' = r.a.binders
    /\ selected' = r.a.selected
    /\ composers' = r.a.composers
    /\ screen' = r.a.screen
    /\ mode' = r.a.mode
    /\ status' = r.a.status
    /\ saved_search' = r.a.saved_search
    /\ calls' = r.a.calls
    /\ run' = IF ~r.ok THEN "crashed" ELSE IF r.v THEN "exited" ELSE "running"

\* One key press handled with the failAt-th gateway call failing; a failAt
\* beyond the calls made is the run without a failure and is left to failAt = 0
Press(code, failAt, r) ==
    /\ failAt <= Len(r.a.calls)
    /\ WithinBounds(code, r)
    /\ Deliver(Returned(r))

\* handle_key dispatches on the Mode, handle_normal_key on the Screen
Dispatched(m, s) == run = "running" /\ mode.kind = m /\ screen.kind \in s

FailPoints == 0..MaxFailAt

AnyScreen == {"Binders", "Songs", "SongManager", "ToPrint"}

NormalKeyBinders(Keys) ==
    /\ Dispatched("Normal", {"Binders"})
    /\ \E code \in Keys, failAt \in FailPoints :
          Press(code, failAt, handle_normal_key_Binders(Taken(failAt), code))

NormalKeySongs(Keys) ==
    /\ Dispatched("Normal", {"Songs"})
    /\ \E code \in Keys, failAt \in FailPoints :
          Press(code, failAt, handle_normal_key_Songs(Taken(failAt), code))

NormalKeySongManager(Keys) ==
    /\ Dispatched("Normal", {"SongManager"})
    /\ \E code \in Keys, failAt \in FailPoints :
          Press(code, failAt, handle_normal_key_SongManager(Taken(failAt), code))

NormalKeyToPrint(Keys) ==
    /\ Dispatched("Normal", {"ToPrint"})
    /\ \E code \in Keys, failAt \in FailPoints :
          Press(code, failAt, handle_normal_key_ToPrint(Taken(failAt), code))

AddBinderKey(Keys) ==
    /\ Dispatched("AddingBinder", AnyScreen)
    /\ \E code \in Keys, failAt \in FailPoints :
          Press(code, failAt, handle_add_binder(Taken(failAt), code, mode.form))

EditBinderKey(Keys) ==
    /\ Dispatched("EditingBinder", AnyScreen)
    /\ \E code \in Keys, failAt \in FailPoints :
          Press(code, failAt,
                handle_edit_binder(Taken(failAt), code, mode.id, mode.form))

ConfirmBinderDeleteKey(Keys) ==
    /\ Dispatched("ConfirmBinderDelete", AnyScreen)
    /\ \E code \in Keys, failAt \in FailPoints :
          Press(code, failAt,
                handle_confirm_binder_delete(Taken(failAt), code, mode.confirm))

EditSongKey(Keys) ==
    /\ Dispatched("EditingSong", AnyScreen)
    /\ \E code \in Keys, failAt \in FailPoints :
          Press(code, failAt,
                handle_edit_song(Taken(failAt), code, mode.song_id, mode.form))

ConfirmSongRemoveKey(Keys) ==
    /\ Dispatched("ConfirmSongRemove", AnyScreen)
    /\ \E code \in Keys, failAt \in FailPoints :
          Press(code, failAt,
                handle_confirm_song_remove(Taken(failAt), code, mode.confirm))

ConfirmSongDeleteKey(Keys) ==
    /\ Dispatched("ConfirmSongDelete", AnyScreen)
    /\ \E code \in Keys, failAt \in FailPoints :
          Press(code, failAt,
                handle_confirm_song_delete(Taken(failAt), code, mode.confirm))

SelectSongKey(Keys) ==
    /\ Dispatched("SelectingSong", AnyScreen)
    /\ \E code \in Keys, failAt \in FailPoints :
          Press(code, failAt, handle_select_song(Taken(failAt), code, mode.state))

CreateSongKey(Keys) ==
    /\ Dispatched("CreatingSong", AnyScreen)
    /\ \E code \in Keys, failAt \in FailPoints :
          Press(code, failAt,
                handle_create_song(Taken(failAt), code, mode.binder_id, mode.form))

ConfirmToPrintExitKey(Keys) ==
    /\ Dispatched("ConfirmToPrintExit", AnyScreen)
    /\ \E code \in Keys, failAt \in FailPoints :
          Press(code, failAt,
                handle_confirm_to_print_exit(Taken(failAt), code, mode.confirm))

SearchKey(Keys) ==
    /\ Dispatched("Searching", AnyScreen)
    /\ \E code \in Keys, failAt \in FailPoints :
          Press(code, failAt, handle_search(Taken(failAt), code, mode.state))

\* run_app on a key with the CONTROL modifier: Ctrl+E and Ctrl+L run their
\* handler and `continue`, handle_key is not called
CtrlE == run = "running" /\ Deliver(Ok(handle_ctrl_e(App(0)).a, FALSE))

CtrlL == run = "running" /\ Deliver(Ok(handle_ctrl_l(App(0)).a, FALSE))

-----------------------------------------------------------------------------
(* The print report: stores with a director (or none) and missing songs *)

InitSongs ==
    {Song(10, <<"b">>, <<>>, <<>>), Song(20, <<"A">>, <<"a">>, <<"x">>)}

InitLabels == <<(<<"a">>), (<<"b">>), (<<"A">>)>>

\* Binder ids 1..3 with these numbers: a director last, a director in the
\* middle, no director
NumberLayouts == {<<1, 2, 0>>, <<2, 0, 1>>, <<1, 2, 3>>}

Store(numbers, links) ==
    [binders |-> {Binder(i, numbers[i], InitLabels[i]) : i \in 1..Len(numbers)},
     songs |-> InitSongs,
     binder_songs |-> links,
     next_binder_id |-> Len(numbers) + 1,
     next_song_id |-> 21]

\* The (binder, song) pairs a report opened on store c would list
MissingPairs(c) ==
    {<<b.id, s.id>> : b \in {x \in c.binders : x.number # 0}, s \in c.songs}
        \cap {p \in (1..3) \X {10, 20} :
                 /\ p \notin c.binder_songs
                 /\ \E d \in c.binders : d.number = 0 /\ <<d.id, p[2]>> \in c.binder_songs}

\* App::new after main.rs loaded the binders and the composers
Started(c) ==
    /\ conn = c
    /\ binders = OrderByNumber(c.binders)
    /\ selected = 0
    /\ composers = OrderComposers({s.composer : s \in c.songs} \ {<<>>})
    /\ screen = Screen_Binders
    /\ mode = Normal
    /\ status = NoStatus
    /\ saved_search = NoSearch
    /\ run = "running"
    /\ calls = <<>>

\* Link tables of the initial stores.  With the director last (<<1, 2, 0>>)
\* the first leaves binder 1 without song 20 and binder 2 without both, the
\* second leaves nothing missing, the third leaves binder 1 without both.
InitLinks ==
    {{<<3, 10>>, <<3, 20>>, <<1, 10>>},
     {<<3, 10>>, <<3, 20>>, <<1, 20>>},
     {<<2, 10>>, <<2, 20>>, <<3, 20>>, <<1, 10>>, <<1, 20>>},
     {<<3, 10>>, <<3, 20>>, <<2, 10>>, <<2, 20>>},
     {}}

InitPrint ==
    \E numbers \in NumberLayouts, links \in InitLinks :
        /\ Cardinality(MissingPairs(Store(numbers, links))) <= MaxMissing
        /\ Started(Store(numbers, links))

\* Keys of the print report; "x" stands for a key no arm matches
PrintKeys == {"q", "Esc", "p", "Tab", "Up", "Down", " ", "x"}
ConfirmKeys == {"Esc", "Left", "Right", "Enter", "y", "n", "x"}

NextPrint ==
    \/ NormalKeyBinders({"p", "q", "Right"})
    \/ NormalKeyToPrint(PrintKeys)
    \/ ConfirmToPrintExitKey(ConfirmKeys)

SpecPrint == InitPrint /\ [][NextPrint]_vars

-----------------------------------------------------------------------------
(* The forms: a store of two binders, the first holding both songs *)

InitForms == Started(Store(<<1, 2>>, {<<1, 10>>, <<1, 20>>}))

\* Keys of the forms: a digit and the space are what gets typed
FormKeys == {"Enter", "Esc", "Tab", "Backspace", "1", " "}
\* The song forms are left on their first field, the forms that edit only delete
SongFormKeys == FormKeys \ {"Tab"}
EditKeys == {"Enter", "Esc", "Tab", "Backspace"}

NextForms ==
    \/ NormalKeyBinders({"+", "e", "Enter", "s"})
    \/ NormalKeySongs({"+", "e", "Esc"})
    \/ NormalKeySongManager({"+", "e", "Esc"})
    \/ AddBinderKey(FormKeys)
    \/ EditBinderKey(EditKeys)
    \/ EditSongKey(EditKeys \ {"Tab"})
    \/ CreateSongKey(SongFormKeys)
    \/ SelectSongKey({"Esc", "Enter"})

SpecForms == InitForms /\ [][NextForms]_vars

-----------------------------------------------------------------------------
(* The confirmations: a director holding both songs, binder 1 without song  *)
(* 20, and every screen that opens a confirmation                           *)

InitConfirm ==
    Started(Store(<<1, 2, 0>>,
                  {<<3, 10>>, <<3, 20>>, <<1, 10>>, <<2, 10>>, <<2, 20>>}))

NextConfirm ==
    \/ NormalKeyBinders({"-", "Enter", "s", "p", "Right"})
    \/ NormalKeySongs({"-", "Esc"})
    \/ NormalKeySongManager({"-", "Esc"})
    \/ NormalKeyToPrint({" ", "Down", "q", "Esc"})
    \/ ConfirmBinderDeleteKey(ConfirmKeys)
    \/ ConfirmSongRemoveKey(ConfirmKeys)
    \/ ConfirmSongDeleteKey(ConfirmKeys)
    \/ ConfirmToPrintExitKey(ConfirmKeys)

SpecConfirm == InitConfirm /\ [][NextConfirm]_vars

-----------------------------------------------------------------------------
(* Every Mode: the director store, and the keys that open and close each    *)
(* overlay                                                                  *)

NextModes ==
    \/ NormalKeyBinders({"+", "e", "-", "Enter", "s", "p", "Right"})
    \/ NormalKeySongs({"+", "e", "-", "f", "Esc"})
    \/ NormalKeySongManager({"+", "e", "-", "f", "Esc"})
    \/ NormalKeyToPrint({" ", "Down", "q", "Esc"})
    \/ AddBinderKey({"Esc", "Enter"})
    \/ EditBinderKey({"Esc", "Enter"})
    \/ ConfirmBinderDeleteKey({"Esc", "x"})
    \/ EditSongKey({"Esc", "Enter"})
    \/ ConfirmSongRemoveKey({"n", "x"})
    \/ ConfirmSongDeleteKey({"n", "x"})
    \/ SelectSongKey({"Esc", "Enter"})
    \/ CreateSongKey({"Esc", "Enter"})
    \/ ConfirmToPrintExitKey({"Esc", "Right"})
    \/ SearchKey({"Esc", "a", "U+0005"})
    \/ CtrlE
    \/ CtrlL

SpecModes == InitConfirm /\ [][NextModes]_vars

-----------------------------------------------------------------------------
(* The binder grid: more binders than one row holds, no songs *)

GridStore ==
    [binders |-> {Binder(i, i, <<"a">>) : i \in 1..GridBinders},
     songs |-> {},
     binder_songs |-> {},
     next_binder_id |-> GridBinders + 1,
     next_song_id |-> 1]

InitGrid == Started(GridStore)

NextGrid ==
    \/ NormalKeyBinders({"Left", "Right", "Up", "Down", "+", "-", "e"})
    \/ AddBinderKey({"Enter", "Esc", "Tab", "a"})
    \/ EditBinderKey({"Enter", "Esc"})
    \/ ConfirmBinderDeleteKey({"y", "n"})

SpecGrid == InitGrid /\ [][NextGrid]_vars

-----------------------------------------------------------------------------
(* Binder detail: three binders numbered in and out of id order, opened,    *)
(* cycled through and deleted                                               *)

InitTabs ==
    \E numbers \in NumberLayouts : Started(Store(numbers, {<<1, 10>>, <<2, 20>>}))

NextTabs ==
    \/ NormalKeyBinders({"Enter", "Right", "-"})
    \/ NormalKeySongs({"Tab", "BackTab", "Esc", "Down"})
    \/ ConfirmBinderDeleteKey({"y", "n"})

SpecTabs == InitTabs /\ [][NextTabs]_vars

-----------------------------------------------------------------------------
(* Searching: one binder holding three songs that differ in the case of     *)
(* their title and composer and in whether their link is blank              *)

SearchSongs ==
    {Song(10, <<"a", "B">>, <<>>, <<" ">>),
     Song(20, <<"b">>, <<"A">>, <<"x">>),
     Song(30, <<"x">>, <<>>, <<>>)}

SearchStore ==
    [binders |-> {Binder(1, 1, <<"a">>)},
     songs |-> SearchSongs,
     binder_songs |-> {<<1, 10>>, <<1, 20>>, <<1, 30>>},
     next_binder_id |-> 2,
     next_song_id |-> 31]

InitSearch == Started(SearchStore)

NextSearch ==
    \/ NormalKeyBinders({"Enter", "s"})
    \/ NormalKeySongs({"f", "e", "Down", "Esc"})
    \/ NormalKeySongManager({"f", "e", "l", "Down", "Esc"})
    \/ SearchKey({"a", "B", " ", "Backspace", "Down", "Esc", "U+0005"})
    \/ EditSongKey({"Enter", "Esc", "Backspace"})
    \/ CtrlE
    \/ CtrlL

SpecSearch == InitSearch /\ [][NextSearch]_vars

-----------------------------------------------------------------------------
(* The song picker: binder 1 holds no song, binder 2 one, the director's    *)
(* binder both; songs are linked, unlinked and created                      *)

InitPicker == Started(Store(<<1, 2, 0>>, {<<2, 10>>, <<3, 10>>, <<3, 20>>}))

NextPicker ==
    \/ NormalKeyBinders({"Enter", "Right"})
    \/ NormalKeySongs({"+", "-", "Esc"})
    \/ SelectSongKey({"Enter", "Esc", "Down", " "})
    \/ CreateSongKey({"Enter", "Esc", "a"})
    \/ ConfirmSongRemoveKey({"y", "n"})

SpecPicker == InitPicker /\ [][NextPicker]_vars

-----------------------------------------------------------------------------
(* Autocomplete: four songs whose composers "ab", "aBx", "Bax" and "bAxa"   *)
(* share prefixes up to case; the song forms are typed in, tabbed through   *)
(* and cancelled                                                            *)

SuggestSongs ==
    {Song(10, <<"a">>, <<"a", "b">>, <<>>),
     Song(20, <<"b">>, <<"a", "B", "x">>, <<>>),
     Song(30, <<"x">>, <<"B", "a", "x">>, <<>>),
     Song(40, <<"x", "a">>, <<"b", "A", "x", "a">>, <<>>)}

SuggestStore ==
    [binders |-> {Binder(1, 1, <<"a">>)},
     songs |-> SuggestSongs,
     binder_songs |-> {},
     next_binder_id |-> 2,
     next_song_id |-> 41]

InitSuggest == Started(SuggestStore)

NextSuggest ==
    \/ NormalKeyBinders({"s", "+", "e"})
    \/ NormalKeySongManager({"+", "e", "Down", "Esc"})
    \/ CreateSongKey({"Tab", "BackTab", "Backspace", "Esc", "Enter", "a", "B"})
    \/ EditSongKey({"Tab", "BackTab", "Backspace", "Esc", "a"})
    \/ AddBinderKey({"Tab", "Backspace", "Esc", "a"})
    \/ EditBinderKey({"Tab", "Backspace", "Esc"})

SpecSuggest == InitSuggest /\ [][NextSuggest]_vars

-----------------------------------------------------------------------------
(* Cursors: a director holding both songs and binder 2 holding one, with    *)
(* the keys that move a list's cursor and those that change its rows        *)

InitCursor == Started(Store(<<0, 1>>, {<<1, 10>>, <<1, 20>>, <<2, 10>>}))

NextCursor ==
    \/ NormalKeyBinders({"Enter", "Right", "s", "p"})
    \/ NormalKeySongs({"Down", "-", "+", "e", "f", "Esc"})
    \/ NormalKeySongManager({"Down", "-", "e", "l", "f", "Esc"})
    \/ NormalKeyToPrint({"Down", "Up", "Tab", " ", "Esc"})
    \/ ConfirmToPrintExitKey({"Enter"})
    \/ SelectSongKey({"Down", " ", "Enter", "Esc"})
    \/ ConfirmSongRemoveKey({"y"})
    \/ ConfirmSongDeleteKey({"y"})
    \/ SearchKey({"a", "Backspace", "Down", "Esc"})
    \/ EditSongKey({"Enter", "Backspace"})
    \/ CtrlL

SpecCursor == InitCursor /\ [][NextCursor]_vars

-----------------------------------------------------------------------------
(* Renumbering: binder 1 numbered 2 and binder 2 numbered 1, no links, and  *)
(* the edit form with the digit that moves a binder down the list           *)

\* Ids up to MaxBinderId - 1 were given out before: one more binder may be added
OrderStore == [Store(<<2, 1>>, {}) EXCEPT !.next_binder_id = MaxBinderId]

InitOrder == Started(OrderStore)

NextOrder ==
    \/ NormalKeyBinders({"+", "e", "-", "Left"})
    \/ AddBinderKey({"Enter", "Tab", "a"})
    \/ EditBinderKey({"Enter", "3"})
    \/ ConfirmBinderDeleteKey({"y"})

SpecOrder == InitOrder /\ [][NextOrder]_vars

-----------------------------------------------------------------------------
(* Properties of the print report *)

\* handle_key for `code` in the current state, the failAt-th gateway call failing
AfterKey(code, failAt) == handle_key(App(failAt), code)

OnPrint == run = "running" /\ screen.kind = "ToPrint" /\ mode.kind = "Normal"

\* The (binder id, song id) pairs whose checkbox is checked in report s
CheckedPairs(s) ==
    {<<s.binder_reports[b].binder_id, s.binder_reports[b].songs[j].song.id>> :
        <<b, j>> \in {p \in (1..Len(s.binder_reports)) \X (1..MaxSongs) :
                        /\ p[2] <= Len(s.binder_reports[p[1]].songs)
                        /\ s.binder_reports[p[1]].songs[p[2]].checked}}

\* q, Esc and p with pending changes: the exit confirmation opens, nothing else
AsksBeforeLeaving ==
    OnPrint /\ screen.pending_changes > 0 =>
        \A failAt \in FailPoints, code \in {"q", "Esc", "p"} :
            LET r == AfterKey(code, failAt)
            IN  /\ r.ok /\ ~r.v
                /\ r.a.screen = screen
                /\ r.a.mode = ConfirmToPrintExit([exit_app |-> code = "q",
                                                  selection |-> "Apply"])

\* q, Esc and p without pending changes: q ends the loop, Esc and p show Binders
LeavesAtOnce ==
    OnPrint /\ screen.pending_changes = 0 =>
        \A failAt \in FailPoints :
            /\ AfterKey("q", failAt).ok /\ AfterKey("q", failAt).v
            /\ \A code \in {"Esc", "p"} :
                  LET r == AfterKey(code, failAt)
                  IN  r.ok /\ ~r.v /\ r.a.screen = Screen_Binders /\ r.a.mode = Normal

\* A step that leaves the report, or ends the loop, with a checkbox checked
LeavesChecked ==
    /\ screen.kind = "ToPrint" /\ CheckedPairs(screen) # {}
    /\ run = "running"
    /\ screen'.kind # "ToPrint" \/ run' # "running"

\* C1: on the print report in Normal mode q, Esc and p open the exit
\* confirmation while changes are pending (exit_app set for q only) and leave
\* at once when none is; no step leaves the report or ends the app with a
\* checkbox checked unless Apply or Discard is the confirmation's selection.
C1_ExitIsConfirmed ==
    [][/\ AsksBeforeLeaving
       /\ LeavesAtOnce
       /\ LeavesChecked =>
             mode.kind = "ConfirmToPrintExit"
             /\ mode.confirm.selection \in {"Apply", "Discard"}]_vars

\* q was pressed with a checkbox checked: the confirmation is open, exit_app set
C1_Witness ==
    /\ mode = ConfirmToPrintExit([exit_app |-> TRUE, selection |-> "Apply"])
    /\ screen.kind = "ToPrint" /\ CheckedPairs(screen) # {}

\* The indexes <<b, j>> of the missing-song entries of report s
Entries(s) ==
    {p \in (1..Len(s.binder_reports)) \X (1..MaxSongs) :
        p[2] <= Len(s.binder_reports[p[1]].songs)}

EntryAt(s, p) == s.binder_reports[p[1]].songs[p[2]]

\* The needed count report s holds for a song
NeededOf(s, song_id) ==
    LET hits == {i \in 1..Len(s.song_totals) : s.song_totals[i].song.id = song_id}
    IN  s.song_totals[CHOOSE i \in hits : TRUE].needed

\* What a step between two views of a report does to the counts when the
\* checkbox of entry p changes in it
CountsFollow(p) ==
    LET song_id == EntryAt(screen, p).song.id
        delta == IF EntryAt(screen', p).checked THEN 1 ELSE -1
    IN  /\ NeededOf(screen', song_id) = NeededOf(screen, song_id) - delta
        /\ screen'.pending_changes = screen.pending_changes + delta
        /\ \A i \in 1..Len(screen.song_totals) :
              screen.song_totals[i].song.id # song_id =>
                  screen'.song_totals[i] = screen.song_totals[i]
        /\ \A q \in Entries(screen) \ {p} : EntryAt(screen', q) = EntryAt(screen, q)

\* C2: a step that checks a missing-song row takes exactly 1 from that song's
\* needed count and adds exactly 1 to pending_changes, a step that unchecks it
\* does the reverse, no other count changes, and no needed count is negative.
C2_ToggleCounts ==
    [][screen.kind = "ToPrint" /\ screen'.kind = "ToPrint" =>
          /\ \A p \in Entries(screen) :
                EntryAt(screen', p).checked # EntryAt(screen, p).checked =>
                    CountsFollow(p)
          /\ \A i \in 1..Len(screen'.song_totals) :
                screen'.song_totals[i].needed >= 0]_vars

\* A row was checked and unchecked again while another stays checked
C2_Witness ==
    /\ screen.kind = "ToPrint"
    /\ status = StatusMessage(Msg("Song unchecked.", 0), "Info")
    /\ screen.pending_changes = 1

\* The (binder id, song id) pairs of the rows report s shows with "[x]"
ShownChecked(s) ==
    {<<s.binder_reports[row.binder_index + 1].binder_id,
       s.binder_reports[row.binder_index + 1].songs[row.song_index + 1].song.id>> :
        row \in {r \in SeqToSet(s.binder_rows) : r.kind = "Song" /\ r.checkbox}}

\* C3: pending_assignments() holds exactly the pairs whose checkbox is checked
\* (in the entries, and in the rows shown), each of them once.
C3_PendingAssignmentsExact ==
    screen.kind = "ToPrint" =>
        LET pairs == pending_assignments(screen)
        IN  /\ SeqToSet(pairs) = CheckedPairs(screen)
            /\ SeqToSet(pairs) = ShownChecked(screen)
            /\ Len(pairs) = Cardinality(CheckedPairs(screen))

\* Two rows are checked, a third is not, after a switch to the song view
C3_Witness ==
    /\ screen.kind = "ToPrint" /\ screen.mode = "BySong"
    /\ Cardinality(CheckedPairs(screen)) = 2
    /\ Cardinality(Entries(screen)) = 3

\* The ids of the songs linked to the director d and not to binder b in store c
Lacks(c, d, b) ==
    {x.id : x \in {y \in c.songs : /\ <<d.id, y.id>> \in c.binder_songs
                                     /\ <<b.id, y.id>> \notin c.binder_songs}}

\* Report s is the report of store c, whose director is d
ReportOf(s, c, d) ==
    LET others == c.binders \ {d}
        reports == s.binder_reports
        totals == s.song_totals
        needed(id) == Cardinality({b \in others : id \in Lacks(c, d, b)})
    IN  /\ s.director_exists /\ s.pending_changes = 0
        /\ {reports[i].binder_id : i \in 1..Len(reports)}
              = {b.id : b \in {x \in others : Lacks(c, d, x) # {}}}
        /\ \A i, k \in 1..Len(reports) :
              reports[i].binder_id = reports[k].binder_id => i = k
        /\ \A i \in 1..Len(reports) : \A b \in others :
              b.id = reports[i].binder_id =>
                  /\ {reports[i].songs[j].song.id : j \in 1..Len(reports[i].songs)}
                        = Lacks(c, d, b)
                  /\ Len(reports[i].songs) = Cardinality(Lacks(c, d, b))
                  /\ \A j \in 1..Len(reports[i].songs) :
                        /\ ~reports[i].songs[j].checked
                        /\ reports[i].songs[j].song \in c.songs
        /\ {totals[i].song.id : i \in 1..Len(totals)}
              = {x.id : x \in {y \in c.songs : needed(y.id) > 0}}
        /\ \A i, k \in 1..Len(totals) :
              totals[i].song.id = totals[k].song.id => i = k
        /\ \A i \in 1..Len(totals) : totals[i].needed = needed(totals[i].song.id)

\* C4: a report opened on a store with a director binder lists, for every other
\* binder, exactly the director's songs not linked to it (unchecked, each
\* once), leaves out the binders that miss none, and gives every song the
\* number of non-director binders missing it as its needed total.
C4_ReportIsDifference ==
    [][screen.kind = "Binders" /\ screen'.kind = "ToPrint" =>
          \A d \in conn.binders : d.number = 0 => ReportOf(screen', conn, d)]_vars

\* The report of a store where binder 1 is linked to song 10 only and binder 2
\* to neither of the director's songs 10 and 20
C4_Witness ==
    /\ screen.kind = "ToPrint" /\ screen.pending_changes = 0
    /\ \E d \in conn.binders : d.number = 0 /\ ReportOf(screen, conn, d)
    /\ Len(screen.binder_reports) = 2
    /\ \E i, k \in 1..2 :
          /\ screen.binder_reports[i].binder_id = 1
          /\ Len(screen.binder_reports[i].songs) = 1
          /\ screen.binder_reports[i].songs[1].song.id = 20
          /\ screen.binder_reports[k].binder_id = 2
          /\ Len(screen.binder_reports[k].songs) = 2
    /\ NeededOf(screen, 10) = 1 /\ NeededOf(screen, 20) = 2

\* The (binder, song) pairs of the link-creation calls in a call log, in order
LinkCalls(log) ==
    LET adds == SelectSeq(log, LAMBDA c : c.op = "add_song_to_binder")
    IN  [i \in 1..Len(adds) |-> <<adds[i].x, adds[i].y>>]

IsPrefix(s, t) == Len(s) <= Len(t) /\ s = SubSeq(t, 1, Len(s))

Confirming(selection) ==
    /\ run = "running" /\ screen.kind = "ToPrint"
    /\ mode.kind = "ConfirmToPrintExit" /\ mode.confirm.selection = selection

C6_DiscardLeavesStore ==
    Confirming("Discard") =>
        \A failAt \in FailPoints :
            LET r == AfterKey("Enter", failAt)
            IN  /\ r.ok /\ r.a.calls = <<>> /\ r.a.conn = conn
                /\ r.a.mode = Normal
                /\ IF mode.confirm.exit_app THEN r.v
                   ELSE ~r.v /\ r.a.screen = Screen_Binders

\* Checked pairs were discarded on the way back to the binder grid, and are
\* still missing
C6_Witness ==
    /\ screen = Screen_Binders /\ mode = Normal
    /\ status = StatusMessage(Msg("Discarded pending changes.", 0), "Info")
    /\ calls = <<>>
    /\ MissingPairs(conn) # {}

\* The report an opening step shows: nothing checked, nothing pending, and no
\* pair listed that the store links
OpensFresh ==
    screen.kind = "Binders" /\ screen'.kind = "ToPrint" =>
        /\ CheckedPairs(screen') = {}
        /\ screen'.pending_changes = 0
        /\ \A p \in Entries(screen') :
              <<screen'.binder_reports[p[1]].binder_id, EntryAt(screen', p).song.id>>
                  \notin conn'.binder_songs

\* The link table changes only by Enter on Apply, and only by pairs checked in
\* the report then shown
LinksOnlyByApply ==
    conn'.binder_songs # conn.binder_songs =>
        /\ Confirming("Apply")
        /\ conn.binder_songs \subseteq conn'.binder_songs
        /\ conn'.binder_songs \ conn.binder_songs \subseteq CheckedPairs(screen)

\* C7: a report opened again after an apply starts with every checkbox
\* unchecked, pending_changes 0 and no linked (so no applied) pair listed; the
\* links change only by pairs checked when Apply is chosen, so discarding a
\* second batch leaves the links as the first apply left them.
C7_SecondBatchDiscarded ==
    [][OpensFresh /\ LinksOnlyByApply
       /\ (Confirming("Discard") => conn' = conn)]_vars

\* A first batch was applied, the report opened again, a second pair checked
\* and discarded: the links are those the apply left
C7_Witness ==
    /\ status = StatusMessage(Msg("Discarded pending changes.", 0), "Info")
    /\ conn.binder_songs \notin InitLinks
    /\ MissingPairs(conn) # {}
    /\ screen = Screen_Binders

-----------------------------------------------------------------------------
(* Properties of the forms and the confirmations *)

\* The failAt-th gateway call of a key's handling was made, and failed
CallFailed(r, failAt) == failAt \in 1..Len(r.a.calls)

\* C8: whatever key arrives in whatever Screen and Mode, and whichever store
\* call fails while it is handled, handle_key returns Ok and run_app goes on.
C8_HandleKeyNeverErrs ==
    /\ run # "crashed"
    /\ run = "running" =>
          \A code \in FormKeys \cup {"+", "e", "s"}, failAt \in FailPoints :
              AfterKey(code, failAt).ok

BinderFormModes == {"AddingBinder", "EditingBinder"}
SongFormModes == {"CreatingSong", "EditingSong"}

\* The validation the forms' Enter starts with
FormIsValid ==
    IF mode.kind \in BinderFormModes
    THEN /\ trim(mode.form.number) # <<>>
         /\ ParseI64(trim(mode.form.number)).ok
         /\ trim(mode.form.label) # <<>>
    ELSE trim(mode.form.title) # <<>>

\* What the form holds apart from its error
FormFields(form) == [f \in DOMAIN form \ {"error"} |-> form[f]]

\* The form mode is still open after r, its fields as they were, the error on
\* the form and on the status line
FormRetained(r) ==
    /\ r.ok /\ ~r.v
    /\ r.a.mode.kind = mode.kind
    /\ FormFields(r.a.mode.form) = FormFields(mode.form)
    /\ r.a.mode.form.error # NoMsg
    /\ r.a.status = StatusMessage(r.a.mode.form.error, "Error")

\* The calls that write what a form holds
SaveCalls ==
    {"create_binder", "update_binder", "create_song", "update_song",
     "add_song_to_binder"}

\* C9: Enter in a form mode validates first; invalid inputs make no store
\* call and keep the form with its fields, the error on the form and on the
\* status line; a failing save call keeps the form too, with the error; the
\* Mode closes only when the inputs were valid and no call failed.
C9_EnterValidatesThenSaves ==
    run = "running" /\ mode.kind \in BinderFormModes \cup SongFormModes =>
        \A failAt \in FailPoints :
            LET r == AfterKey("Enter", failAt)
            IN  /\ ~FormIsValid => r.a.calls = <<>> /\ FormRetained(r)
                /\ /\ FormIsValid
                   /\ CallFailed(r, failAt)
                   /\ r.a.calls[failAt].op \in SaveCalls
                   => FormRetained(r)
                /\ r.ok /\ r.a.mode.kind # mode.kind =>
                      FormIsValid /\ ~CallFailed(r, failAt)

DeleteConfirmModes == {"ConfirmBinderDelete", "ConfirmSongRemove", "ConfirmSongDelete"}

\* The call that carries out the confirmed action on the mode's target
ConfirmedCall ==
    CASE mode.kind = "ConfirmBinderDelete" ->
           [op |-> "delete_binder", x |-> mode.confirm.id, y |-> 0]
      [] mode.kind = "ConfirmSongRemove" ->
           [op |-> "remove_song_from_binder", x |-> mode.confirm.binder_id,
            y |-> mode.confirm.song.id]
      [] mode.kind = "ConfirmSongDelete" ->
           [op |-> "delete_song", x |-> mode.confirm.song.id, y |-> 0]

\* The mode's target is in the store
TargetIn(c) ==
    CASE mode.kind = "ConfirmBinderDelete" ->
           \E b \in c.binders : b.id = mode.confirm.id
      [] mode.kind = "ConfirmSongRemove" ->
           <<mode.confirm.binder_id, mode.confirm.song.id>> \in c.binder_songs
      [] mode.kind = "ConfirmSongDelete" ->
           \E x \in c.songs : x.id = mode.confirm.song.id

\* r left everything but the status line as it was, and called nothing
Untouched(r) ==
    /\ r.ok /\ ~r.v /\ r.a.calls = <<>>
    /\ r.a.conn = conn /\ r.a.screen = screen /\ r.a.binders = binders

\* y and Enter carry the action out, n and Esc cancel it, another key does nothing
DeleteConfirmKeys ==
    /\ \A code \in {"y", "Enter"} :
          LET r == AfterKey(code, 0)
          IN  /\ r.a.calls # <<>> /\ r.a.calls[1] = ConfirmedCall
              /\ ~TargetIn(r.a.conn)
              /\ TargetIn(conn) => r.ok /\ r.a.mode = Normal
    /\ \A failAt \in FailPoints :
          /\ \A code \in {"n", "Esc"} :
                Untouched(AfterKey(code, failAt)) /\ AfterKey(code, failAt).a.mode = Normal
          /\ \A code \in {"x", "Left", "Right"} :
                Untouched(AfterKey(code, failAt)) /\ AfterKey(code, failAt).a.mode = mode

\* Enter acts on the selected choice, Esc cancels, the arrows move the
\* selection, another key (y and n too) does nothing
PrintExitConfirmKeys ==
    \A failAt \in FailPoints :
        /\ Untouched(AfterKey("Esc", failAt)) /\ AfterKey("Esc", failAt).a.mode = Normal
        /\ mode.confirm.selection = "Cancel" =>
              /\ Untouched(AfterKey("Enter", failAt))
              /\ AfterKey("Enter", failAt).a.mode = Normal
        /\ mode.confirm.selection = "Discard" =>
              /\ AfterKey("Enter", failAt).a.calls = <<>>
              /\ AfterKey("Enter", failAt).a.mode = Normal
        /\ mode.confirm.selection = "Apply" =>
              IsPrefix(LinkCalls(AfterKey("Enter", failAt).a.calls),
                       pending_assignments(screen))
        /\ \A code \in {"Left", "Right"} :
              LET r == AfterKey(code, failAt)
              IN  /\ Untouched(r)
                  /\ r.a.mode.kind = mode.kind
                  /\ r.a.mode.confirm.exit_app = mode.confirm.exit_app
                  /\ r.a.mode.confirm.selection # mode.confirm.selection
        /\ \A code \in {"y", "n", "x"} :
              Untouched(AfterKey(code, failAt)) /\ AfterKey(code, failAt).a.mode = mode

\* C10 as amended: in ConfirmBinderDelete, ConfirmSongRemove and
\* ConfirmSongDelete y or Enter calls the store to delete the target (closing
\* to Normal when the target was there and no call fails) and n or Esc cancels
\* to Normal without a store call, any other key changing nothing; in
\* ConfirmToPrintExit
\* Enter acts on the selected choice, Esc cancels, Left and Right move the
\* selection, and any other key, y and n included, changes nothing.
C10_ConfirmKeys ==
    run = "running" =>
        /\ mode.kind \in DeleteConfirmModes => DeleteConfirmKeys
        /\ mode.kind = "ConfirmToPrintExit" => PrintExitConfirmKeys

\* C10 as stated: in every confirmation mode y does what Enter does, n and Esc
\* cancel to Normal without a store call, and any other key leaves the mode
\* as it is.
C10_AsStated ==
    run = "running" /\ mode.kind \in DeleteConfirmModes \cup {"ConfirmToPrintExit"} =>
        /\ AfterKey("y", 0) = AfterKey("Enter", 0)
        /\ \A code \in {"n", "Esc"} :
              AfterKey(code, 0).a.mode = Normal /\ AfterKey(code, 0).a.calls = <<>>
        /\ \A code \in {"x", "Left", "Right"} : AfterKey(code, 0).a.mode = mode

\* A binder's deletion was confirmed, and the exit confirmation is now open
\* on a report of the binders that are left
C10_Witness ==
    /\ mode.kind = "ConfirmToPrintExit" /\ mode.confirm.selection = "Discard"
    /\ Len(binders) = 2
    /\ Cardinality(conn.binders) = 2

-----------------------------------------------------------------------------
(* Properties of a failed confirmation *)

\* The App the next key finds once handle_key returned r
Then(r, failAt) == [r.a EXCEPT !.calls = <<>>, !.failAt = failAt, !.exit = FALSE]

\* r kept the confirmation open on its target after its one call failed:
\* the error on the status line, the store, the Screen and the caches as they were
ConfirmRetained(r) ==
    /\ r.ok /\ ~r.v
    /\ r.a.calls = <<ConfirmedCall>>
    /\ r.a.mode = mode
    /\ r.a.status.kind = "Error" /\ r.a.status.text # ""
    /\ r.a.conn = conn /\ r.a.screen = screen
    /\ r.a.binders = binders /\ r.a.selected = selected
    /\ r.a.composers = composers

\* After r, y or Enter makes the same call again (and closes to Normal when it
\* succeeds), n or Esc cancels to Normal without a call
RetryOrCancel(r) ==
    /\ \A code \in {"y", "Enter"} :
          LET r2 == handle_key(Then(r, 0), code)
          IN  /\ r2.a.calls # <<>> /\ r2.a.calls[1] = ConfirmedCall
              /\ TargetIn(conn) =>
                    r2.ok /\ r2.a.mode = Normal /\ ~TargetIn(r2.a.conn)
              /\ ~TargetIn(conn) => r2.ok /\ r2.a.mode = mode
    /\ \A code \in {"n", "Esc"} :
          LET r3 == handle_key(Then(r, 0), code)
          IN  r3.ok /\ r3.a.mode = Normal /\ r3.a.calls = <<>> /\ r3.a.conn = conn

\* C11: when the store call of a confirmed binder deletion, song removal or
\* song deletion fails (the call itself, or its row or link being gone), the
\* confirmation stays open on the same target with the error on the status
\* line, the Screen and the caches are as they were, and afterwards y or Enter
\* tries the same call again while n or Esc cancels to Normal.
C11_FailedConfirmRetained ==
    run = "running" /\ mode.kind \in DeleteConfirmModes =>
        \A code \in {"y", "Enter"}, failAt \in {0, 1} :
            failAt = 1 \/ ~TargetIn(conn) =>
                /\ ConfirmRetained(AfterKey(code, failAt))
                /\ RetryOrCancel(AfterKey(code, failAt))

\* A confirmed action has just failed on a target that is still in the store
C11_Witness ==
    /\ run = "running" /\ mode.kind \in DeleteConfirmModes
    /\ calls = <<ConfirmedCall>>
    /\ status.kind = "Error"
    /\ TargetIn(conn)

-----------------------------------------------------------------------------
(* Properties of the Mode *)

ModeKinds ==
    {"Normal", "AddingBinder", "EditingBinder", "ConfirmBinderDelete",
     "EditingSong", "ConfirmSongRemove", "SelectingSong", "ConfirmSongDelete",
     "CreatingSong", "ConfirmToPrintExit", "Searching"}

NamedKeys ==
    {"Esc", "Enter", "Tab", "BackTab", "Backspace", "Up", "Down", "Left",
     "Right", "PageUp", "PageDown", "Home", "End"}

AllKeys == CharKeys \cup NamedKeys

\* The Mode kinds in which the key `code` may leave the application, when
\* handle_key returns Ok
KindsAfter(code) ==
    {AfterKey(code, failAt).a.mode.kind :
        failAt \in {f \in FailPoints : AfterKey(code, f).ok}}

\* The Mode kinds Ctrl+E and Ctrl+L may leave
KindsAfterCtrl ==
    {handle_ctrl_e(App(0)).a.mode.kind, handle_ctrl_l(App(0)).a.mode.kind}

\* An event that changes the Mode from kind m to kind k opens an overlay from
\* Normal or closes one to Normal
ThroughNormal(m, k) == k = m \/ m = "Normal" \/ k = "Normal"

\* C12 as stated: one Mode at a time, and no key, Ctrl+E or Ctrl+L takes the
\* Mode from one overlay mode to a different overlay mode.
C12_AsStated ==
    /\ mode.kind \in ModeKinds
    /\ run = "running" =>
          /\ \A code \in AllKeys : \A k \in KindsAfter(code) :
                ThroughNormal(mode.kind, k)
          /\ \A k \in KindsAfterCtrl : ThroughNormal(mode.kind, k)

\* C12 as amended: one Mode at a time, and an event takes the Mode from one
\* overlay mode to a different one only in three cases: Ctrl+E (the handler,
\* or the character U+0005) from Searching to EditingSong; Enter or Esc from
\* EditingSong to Searching when a search was stashed; Enter from
\* SelectingSong to CreatingSong.
C12_OverlayChanges ==
    /\ mode.kind \in ModeKinds
    /\ run = "running" =>
          /\ \A code \in AllKeys : \A k \in KindsAfter(code) :
                \/ ThroughNormal(mode.kind, k)
                \/ code = "U+0005" /\ mode.kind = "Searching" /\ k = "EditingSong"
                \/ /\ code \in {"Enter", "Esc"}
                   /\ mode.kind = "EditingSong" /\ k = "Searching"
                   /\ saved_search.some
                \/ code = "Enter" /\ mode.kind = "SelectingSong" /\ k = "CreatingSong"
          /\ ThroughNormal(mode.kind, handle_ctrl_l(App(0)).a.mode.kind)
          /\ \/ ThroughNormal(mode.kind, handle_ctrl_e(App(0)).a.mode.kind)
             \/ /\ mode.kind = "Searching"
                /\ handle_ctrl_e(App(0)).a.mode.kind = "EditingSong"

\* Ctrl+E has taken a search to the edit form, whose Esc will go back to it
C12_Witness ==
    /\ run = "running" /\ mode.kind = "EditingSong" /\ saved_search.some
    /\ AfterKey("Esc", 0).a.mode.kind = "Searching"

-----------------------------------------------------------------------------
(* Properties of the binder grid *)

OnGrid == run = "running" /\ screen.kind = "Binders" /\ mode.kind = "Normal"

\* How far each arrow key moves the grid cursor
ArrowOffset(code) ==
    CASE code = "Left" -> -1
      [] code = "Right" -> 1
      [] code = "Up" -> -GRID_COLUMNS
      [] code = "Down" -> GRID_COLUMNS

\* C13: on the Binders screen the cursor is within the binders shown (0 when
\* there are none) whatever arrows, adds, edits and deletes came before,
\* failed or not; an arrow moves it by 1 (Left, Right) or by the 4 columns
\* (Up, Down) when that lands on a binder and leaves it alone otherwise.
C13_CursorInGrid ==
    /\ screen.kind = "Binders" =>
          IF Len(binders) = 0 THEN selected = 0 ELSE selected \in 0..(Len(binders) - 1)
    /\ OnGrid =>
          \A code \in {"Left", "Right", "Up", "Down"}, failAt \in FailPoints :
              LET r == AfterKey(code, failAt)
                  target == selected + ArrowOffset(code)
              IN  /\ r.ok /\ r.a.mode = Normal /\ r.a.calls = <<>>
                  /\ r.a.binders = binders /\ r.a.screen = screen
                  /\ r.a.selected = IF target \in 0..(Len(binders) - 1)
                                    THEN target ELSE selected

\* The last binder of the grid was deleted under the cursor, which is on the
\* binder that is now last, where Right and Down have nowhere to go
C13_Witness ==
    /\ OnGrid
    /\ calls # <<>> /\ calls[1].op = "delete_binder"
    /\ Len(binders) = GridBinders - 1
    /\ selected = Len(binders) - 1
    /\ AfterKey("Down", 0).a.selected = selected
    /\ AfterKey("Right", 0).a.selected = selected
    /\ AfterKey("Left", 0).a.selected = selected - 1

\* C14: on the Binders screen Left with the cursor in column 0 of any row
\* leaves the cursor where it is.
C14_LeftAtColumnZero ==
    OnGrid /\ selected % GRID_COLUMNS = 0 =>
        AfterKey("Left", 0).a.selected = selected

-----------------------------------------------------------------------------
(* Properties of binder detail *)

OnSongs == run = "running" /\ screen.kind = "Songs" /\ mode.kind = "Normal"

\* The binder after b in ascending number order among the binders the
\* application holds, the lowest-numbered one after the highest
Following(b) ==
    LET all == SeqToSet(binders)
        higher == {c \in all : c.number > b.number}
        from == IF higher # {} THEN higher ELSE all
    IN  CHOOSE c \in from : \A d \in from : c.number <= d.number

\* The binder before b, the highest-numbered one before the lowest
Preceding(b) ==
    LET all == SeqToSet(binders)
        lower == {c \in all : c.number < b.number}
        from == IF lower # {} THEN lower ELSE all
    IN  CHOOSE c \in from : \A d \in from : c.number >= d.number

\* r opened binder b in detail, the grid cursor on it
OpenedBinder(r, b) ==
    /\ r.ok /\ ~r.v /\ r.a.mode = Normal
    /\ r.a.screen.kind = "Songs" /\ r.a.screen.binder = b
    /\ r.a.binders = binders
    /\ At(r.a.binders, r.a.selected) = b

\* The App after k Tab keys, starting from a
RECURSIVE TabTimes(_, _)
TabTimes(a, k) ==
    IF k = 0 THEN a ELSE TabTimes(Then(handle_key(a, "Tab"), 0), k - 1)

\* C15: in binder detail Tab opens the binder that follows the shown one in
\* ascending number order and Shift-Tab the one that precedes it, wrapping
\* around; Tab then Shift-Tab, and as many Tabs as there are binders, come
\* back to the shown binder; the grid cursor ends on the binder opened.
C15_TabCyclesBinders ==
    OnSongs =>
        /\ screen.binder \in SeqToSet(binders)
        /\ OpenedBinder(AfterKey("Tab", 0), Following(screen.binder))
        /\ OpenedBinder(AfterKey("BackTab", 0), Preceding(screen.binder))
        /\ OpenedBinder(handle_key(Then(AfterKey("Tab", 0), 0), "BackTab"),
                        screen.binder)
        /\ OpenedBinder(handle_key(Then(AfterKey("BackTab", 0), 0), "Tab"),
                        screen.binder)
        /\ TabTimes(App(0), Len(binders)).screen.binder = screen.binder

\* The lowest-numbered of three binders is shown, opened by a Tab from the
\* highest-numbered one, and Shift-Tab leads back there
C15_Witness ==
    /\ OnSongs /\ Len(binders) = 3
    /\ screen.binder = binders[1]
    /\ calls = <<[op |-> "fetch_songs_for_binder", x |-> binders[1].id, y |-> 0]>>
    /\ binders[1].id # 1
    /\ AfterKey("BackTab", 0).a.screen.binder = binders[3]

-----------------------------------------------------------------------------
(* Properties of searching *)

OnSearch == run = "running" /\ mode.kind = "Searching"

\* Song x has the query as a case-insensitive substring of its title or composer
QueryMatches(x, query) ==
    \/ contains(to_lowercase(x.title), to_lowercase(query))
    \/ contains(to_lowercase(x.composer), to_lowercase(query))

\* Song x has no link once blanks are trimmed
NoLink(x) == trim(x.link) = <<>>

\* The songs of list s that its search filter and no-link filter let through
Listed(s) ==
    SelectSeq(s.songs, LAMBDA x :
        /\ s.filter.some /\ trim(s.filter.v) # <<>> => QueryMatches(x, s.filter.v)
        /\ s.kind = "SongManager" /\ s.show_only_no_link => NoLink(x))

\* The song edit form is open over a stashed search
EditingFromSearch == run = "running" /\ mode.kind = "EditingSong" /\ saved_search.some

\* handle_key's result r leaves the list filtered as it was before the key
StillFiltered(r) ==
    /\ r.a.screen.kind = screen.kind
    /\ r.a.screen.filter = screen.filter
    /\ r.a.screen.filtered_songs = Listed(r.a.screen)

\* Keys of every arm of handle_edit_song
EditSongKeys == {"Esc", "Enter", "Tab", "BackTab", "Backspace", "a", " ", "Down"}

\* C16: Ctrl+E while Searching on a song stashes the search state and opens
\* the song's edit form over the unchanged list; while the form stays open
\* the stash and the list's filter stay as they are; and the key that closes
\* the form, Esc or a successful save, makes the Mode Searching with the
\* stashed target and query and leaves the list filtered by the same filter.
C16_SearchRestoredAfterEdit ==
    /\ OnSearch /\ screen.kind = mode.state.target /\ current_song(screen).id # NoId
          => LET r == handle_ctrl_e(App(0))
             IN  /\ r.a.mode.kind = "EditingSong"
                 /\ r.a.mode.song_id = current_song(screen).id
                 /\ r.a.saved_search = SomeSearch(mode.state)
                 /\ r.a.screen = screen
                 /\ handle_key(Then(r, 0), "Esc").a.mode = Searching(mode.state)
    /\ EditingFromSearch
          => /\ handle_ctrl_e(App(0)).a.mode = mode
             /\ handle_ctrl_e(App(0)).a.saved_search = saved_search
             /\ handle_ctrl_l(App(0)).a.mode = mode
             /\ handle_ctrl_l(App(0)).a.saved_search = saved_search
             /\ handle_ctrl_l(App(0)).a.screen.filter = screen.filter
             /\ \A code \in EditSongKeys, failAt \in FailPoints :
                   LET r == AfterKey(code, failAt)
                   IN  r.ok => /\ r.a.mode.kind \in {"EditingSong", "Searching"}
                               /\ StillFiltered(r)
                               /\ r.a.mode.kind = "EditingSong"
                                     => r.a.saved_search = saved_search
                               /\ r.a.mode.kind = "Searching"
                                     => /\ r.a.mode.state = saved_search.state
                                        /\ code \in {"Esc", "Enter"}

\* Ctrl+E in a search for "aB" opened the form of the one song listed, its
\* title was cut to "a", and Enter saves it: the Mode is Searching for "aB"
\* again and the list, still filtered by "aB", is now empty; Esc instead
\* leaves the song listed.
C16_Witness ==
    /\ EditingFromSearch
    /\ saved_search.state = SearchState("SongManager", <<"a", "B">>)
    /\ mode.form.title = <<"a">>
    /\ Len(screen.filtered_songs) = 1
    /\ AfterKey("Enter", 0).ok
    /\ AfterKey("Enter", 0).a.mode = Searching(saved_search.state)
    /\ AfterKey("Enter", 0).a.screen.filter = SomeText(<<"a", "B">>)
    /\ AfterKey("Enter", 0).a.screen.filtered_songs = <<>>
    /\ AfterKey("Esc", 0).a.mode = Searching(saved_search.state)
    /\ Len(AfterKey("Esc", 0).a.screen.filtered_songs) = 1

\* The keys that change the query, and the query after one of them
QueryKeys == (CharKeys \ ControlChars) \cup {"Backspace"}

QueryAfter(code) ==
    IF code = "Backspace" THEN pop(mode.state.query) ELSE Append(mode.state.query, code)

\* A search whose target list is the one on the screen
SearchingShown == OnSearch /\ screen.kind = mode.state.target

\* Index i clamped into list l: unchanged if within range, else the last
\* index, 0 for the empty list
Clamped(i, l) == IF Len(l) = 0 THEN 0 ELSE IF i >= Len(l) THEN Len(l) - 1 ELSE i

\* The songs of list s the no-link filter lets through (all of them in binder
\* detail, which has no such filter)
Unhidden(s) ==
    SelectSeq(s.songs, LAMBDA x : s.kind = "SongManager" /\ s.show_only_no_link => NoLink(x))

\* C17 as stated: after a typed character or Backspace the list shows exactly
\* the songs whose title or composer contains the query, whatever the query.
C17_AsStated ==
    SearchingShown =>
        \A code \in QueryKeys :
            LET r == AfterKey(code, 0)
            IN  r.a.screen.filtered_songs =
                    SelectSeq(screen.songs, LAMBDA x : QueryMatches(x, QueryAfter(code)))

\* C17: in a search on the shown list, a typed character or Backspace leaves
\* the Mode Searching with the changed query and the list showing, in the
\* order of its songs, exactly those the no-link filter lets through and that,
\* unless the query is blank once trimmed, contain the query in title or
\* composer without regard to case; Esc makes the Mode Normal and the filter
\* none and the list shows every song the no-link filter lets through; either
\* way the selection index is clamped into the list shown.
C17_SearchFilters ==
    SearchingShown =>
        /\ \A code \in QueryKeys :
              LET r == AfterKey(code, 0)
                  q == QueryAfter(code)
                  s == r.a.screen
              IN  /\ r.ok
                  /\ r.a.mode = Searching(SearchState(mode.state.target, q))
                  /\ s.songs = screen.songs
                  /\ s.filtered_songs =
                        SelectSeq(Unhidden(screen), LAMBDA x :
                            trim(q) # <<>> => QueryMatches(x, q))
                  /\ s.selected = Clamped(screen.selected, s.filtered_songs)
        /\ LET r == AfterKey("Esc", 0)
               s == r.a.screen
           IN  /\ r.ok
               /\ r.a.mode = Normal
               /\ s.filter = NoText
               /\ s.songs = screen.songs
               /\ s.filtered_songs = Unhidden(screen)
               /\ s.selected = Clamped(screen.selected, s.filtered_songs)

\* A search of all three songs for "a" with the cursor on the second of the
\* two songs listed: typing "B" leaves the one song titled "aB" and moves the
\* cursor onto it, Backspace lists all three again, and Esc does too.
C17_Witness ==
    /\ SearchingShown
    /\ mode.state.query = <<"a">>
    /\ screen.filter = SomeText(<<"a">>)
    /\ Len(screen.songs) = 3
    /\ Len(screen.filtered_songs) = 2
    /\ screen.filtered_songs[2].composer = <<"A">>
    /\ screen.selected = 1
    /\ Len(AfterKey("B", 0).a.screen.filtered_songs) = 1
    /\ AfterKey("B", 0).a.screen.selected = 0
    /\ Len(AfterKey("Backspace", 0).a.screen.filtered_songs) = 3
    /\ AfterKey("Esc", 0).a.mode = Normal
    /\ Len(AfterKey("Esc", 0).a.screen.filtered_songs) = 3

-----------------------------------------------------------------------------
(* Properties of the song manager's no-link filter *)

OnManager == run = "running" /\ screen.kind = "SongManager"

\* The selection index of list s is an index of its filtered songs (0 when
\* there are none)
SelectionInRange(s) == s.selected = Clamped(s.selected, s.filtered_songs)

\* The song manager after Ctrl+L, and after a second Ctrl+L
ToggledOnce == handle_ctrl_l(App(0))
ToggledTwice == handle_ctrl_l(Then(ToggledOnce, 0))

\* C18: in the song manager, whatever the Mode, the first toggle of the
\* no-link filter inverts the flag and the second one gives back the flag and
\* the filtered list as they were, over the same songs and search filter,
\* with the selection index within range of that list; the `l` key in Normal
\* mode does what Ctrl+L does.
C18_ToggleTwiceRestores ==
    OnManager =>
        /\ ToggledOnce.a.screen.show_only_no_link = ~screen.show_only_no_link
        /\ ToggledOnce.a.screen.filtered_songs = Listed(ToggledOnce.a.screen)
        /\ SelectionInRange(ToggledOnce.a.screen)
        /\ ToggledTwice.a.screen.show_only_no_link = screen.show_only_no_link
        /\ ToggledTwice.a.screen.filtered_songs = screen.filtered_songs
        /\ ToggledTwice.a.screen.songs = screen.songs
        /\ ToggledTwice.a.screen.filter = screen.filter
        /\ SelectionInRange(ToggledTwice.a.screen)
        /\ ToggledTwice.a.screen.selected <= screen.selected
        /\ ToggledTwice.a.mode = mode
        /\ mode.kind = "Normal" =>
              /\ AfterKey("l", 0).a.screen = ToggledOnce.a.screen
              /\ handle_key(Then(AfterKey("l", 0), 0), "l").a.screen = ToggledTwice.a.screen

\* All three songs listed with the cursor on the last: the first toggle
\* leaves the two songs without a link and pulls the cursor onto the second
\* of them, the second toggle lists all three again and the cursor stays
\* where the first one put it.
C18_Witness ==
    /\ OnManager
    /\ mode.kind = "Normal"
    /\ ~screen.show_only_no_link
    /\ Len(screen.filtered_songs) = 3
    /\ screen.selected = 2
    /\ Len(ToggledOnce.a.screen.filtered_songs) = 2
    /\ ToggledOnce.a.screen.selected = 1
    /\ ToggledTwice.a.screen.filtered_songs = screen.filtered_songs
    /\ ToggledTwice.a.screen.selected = 1

\* The songs of list l that match query q when the search filter is active,
\* and have no link when the no-link filter is active
Composed(l, searching, q, no_link) ==
    SelectSeq(l, LAMBDA x : /\ searching => QueryMatches(x, q)
                            /\ no_link => NoLink(x))

\* C19: the song manager lists exactly the songs that match the search
\* filter, if one is set, and have a link that is empty after trim, if the
\* no-link filter is on; a search filter that is set is never blank.  In a
\* search, typing a key and then toggling the no-link filter lists the same
\* songs as toggling first and typing then: those that match the new query
\* (if it is not blank) and, according to the inverted flag, have no link.
C19_FiltersCompose ==
    OnManager =>
        /\ screen.filter.some => trim(screen.filter.v) # <<>>
        /\ screen.filtered_songs =
              Composed(screen.songs, screen.filter.some, screen.filter.v,
                       screen.show_only_no_link)
        /\ SearchingShown =>
              \A code \in QueryKeys :
                  LET typed_first == handle_ctrl_l(Then(AfterKey(code, 0), 0))
                      toggled_first == handle_key(Then(ToggledOnce, 0), code)
                      both == Composed(screen.songs, trim(QueryAfter(code)) # <<>>,
                                       QueryAfter(code), ~screen.show_only_no_link)
                  IN  /\ typed_first.a.screen.filtered_songs = both
                      /\ toggled_first.a.screen.filtered_songs = both
                      /\ typed_first.a.screen.show_only_no_link = ~screen.show_only_no_link
                      /\ toggled_first.a.screen.show_only_no_link = ~screen.show_only_no_link

\* A search of the song manager for "a" lists two songs, one with the blank
\* link " " and one with a link, and the no-link filter is off.  Ctrl+L then
\* "B", and "B" then Ctrl+L, both leave the song "aB" with the blank link;
\* Ctrl+L alone leaves it too and hides the song with a link.
C19_Witness ==
    /\ OnManager
    /\ SearchingShown
    /\ mode.state.query = <<"a">>
    /\ ~screen.show_only_no_link
    /\ Len(screen.filtered_songs) = 2
    /\ screen.filtered_songs[1].link = <<" ">>
    /\ screen.filtered_songs[2].link = <<"x">>
    /\ ToggledOnce.a.screen.filtered_songs = <<screen.filtered_songs[1]>>
    /\ handle_key(Then(ToggledOnce, 0), "B").a.screen.filtered_songs
          = <<screen.filtered_songs[1]>>
    /\ handle_ctrl_l(Then(AfterKey("B", 0), 0)).a.screen.filtered_songs
          = <<screen.filtered_songs[1]>>

-----------------------------------------------------------------------------
(* Properties of the song picker *)

\* The songs of the store not linked to the binder shown in binder detail
Unlinked == {s \in conn.songs : <<screen.binder.id, s.id>> \notin conn.binder_songs}

\* The songs the picker state offers after its first entry
Offered(state) == [i \in 1..(Len(state.items) - 1) |-> state.items[i + 1].song]

\* C20: in binder detail in Normal mode, with no store call failing, + makes
\* the Mode CreatingSong with an empty form bound to the shown binder if the
\* store has no song that is not linked to it; otherwise SelectingSong for
\* this binder, the first entry "create new" and the others the songs not
\* linked to the binder, each once, nothing checked and the cursor on the
\* first entry.  The store and the screen are left as they are.
C20_PlusOpensPickerOrForm ==
    OnSongs =>
        LET r == AfterKey("+", 0)
            state == r.a.mode.state
        IN  /\ r.ok
            /\ r.a.conn = conn
            /\ r.a.screen = screen
            /\ Unlinked = {} => r.a.mode = CreatingSong(screen.binder.id, SongForm_default)
            /\ Unlinked # {} =>
                  /\ r.a.mode.kind = "SelectingSong"
                  /\ state.binder_id = screen.binder.id
                  /\ state.items[1] = AddSongItem_CreateNew
                  /\ \A i \in 2..Len(state.items) : ~state.items[i].create_new
                  /\ Len(state.items) = 1 + Cardinality(Unlinked)
                  /\ SeqToSet(Offered(state)) = Unlinked
                  /\ state.selected = 0
                  /\ state.checked = {}

\* Binder detail of a binder holding one of the store's three songs: + opens
\* the picker with "create new" and the two other songs.
C20_Witness ==
    /\ OnSongs
    /\ Cardinality(conn.songs) = 3
    /\ Len(screen.songs) = 1
    /\ Cardinality(Unlinked) = 2
    /\ AfterKey("+", 0).a.mode.kind = "SelectingSong"
    /\ Len(AfterKey("+", 0).a.mode.state.items) = 3
    /\ AfterKey("+", 0).a.mode.state.items[1].create_new
    /\ \A s \in SeqToSet(Offered(AfterKey("+", 0).a.mode.state)) :
          s \notin SeqToSet(screen.songs)

OnPicker == run = "running" /\ mode.kind = "SelectingSong"

\* The (binder, song) pairs of the picker's checked songs, in list order
CheckedLinks(state) ==
    LET picked == checked_songs(state)
    IN  [i \in 1..Len(picked) |-> <<state.binder_id, picked[i].id>>]

\* C21: in the song picker with at least one item checked, Enter calls
\* add_song_to_binder for every checked song, in list order, whichever of the
\* store calls fails: a failing link does not keep the later ones from being
\* made.
C21_EnterCommitsAllChecked ==
    OnPicker /\ Len(checked_songs(mode.state)) > 0 =>
        \A failAt \in FailPoints :
            LinkCalls(AfterKey("Enter", failAt).a.calls) = CheckedLinks(mode.state)

-----------------------------------------------------------------------------
(* Properties of the song form's autocomplete *)

InSongForm == run = "running" /\ mode.kind \in SongFormModes

\* The position in the composers cache of the first composer that starts
\* with `text` without regard to case; 0 if there is none
FirstMatch(text, cached) ==
    LET hits == {i \in 1..Len(cached) :
                    starts_with(to_lowercase(cached[i]), to_lowercase(text))}
    IN  IF hits = {} THEN 0 ELSE CHOOSE i \in hits : \A j \in hits : i <= j

\* Option<String>: what the form should offer with this composers cache
Suggested(form, cached) ==
    LET k == FirstMatch(form.composer, cached)
    IN  IF /\ form.active = "Composer"
           /\ Len(form.composer) >= 2
           /\ ~form.autocomplete_disabled
           /\ k # 0
           /\ to_lowercase(cached[k]) # to_lowercase(form.composer)
        THEN SomeText(cached[k])
        ELSE NoText

\* The keys that edit a song form or move its focus
SongEditKeys == {"Tab", "BackTab", "Backspace", "a", "A", "b", "B", "x", " "}

\* C22: an open song form offers a suggestion exactly when the composer
\* field is active, holds at least 2 characters, autocomplete is not disabled
\* and the first cached composer that starts with the text without regard to
\* case differs from it by more than case, and the suggestion is then that
\* composer; so it is after every key that edits the form or moves its focus.
C22_SuggestionOffered ==
    InSongForm =>
        /\ mode.form.suggestion = Suggested(mode.form, composers)
        /\ \A code \in SongEditKeys :
              LET r == AfterKey(code, 0)
              IN  /\ r.ok
                  /\ r.a.mode.kind = mode.kind
                  /\ r.a.composers = composers
                  /\ r.a.mode.form.suggestion = Suggested(r.a.mode.form, composers)

\* The composer field holds "B" and nothing is offered; "a" makes it "Ba",
\* for which "Bax", the first of the two cached composers starting with it,
\* is offered; "B" makes it "BB" and nothing is offered; and with "a" typed
\* first, "aB" would be offered nothing, "ab" being the first to start with it.
C22_Witness ==
    /\ InSongForm
    /\ composers = <<(<<"a", "b">>), (<<"a", "B", "x">>), (<<"B", "a", "x">>),
                     (<<"b", "A", "x", "a">>)>>
    /\ mode.form.active = "Composer"
    /\ mode.form.composer = <<"B">>
    /\ ~mode.form.suggestion.some
    /\ AfterKey("a", 0).a.mode.form.suggestion = SomeText(<<"B", "a", "x">>)
    /\ ~AfterKey("B", 0).a.mode.form.suggestion.some
    /\ Suggested([mode.form EXCEPT !.composer = <<"a", "B">>], composers) = NoText

\* The keys that insert a character, and those a song form has an arm for
TypedKeys == {"a", "A", "b", "B", "x", " "}
SongFormArms == SongEditKeys \cup {"Enter", "Esc", "Down"}

\* C23: in a song form with an active suggestion Tab makes the composer field
\* exactly the suggested name, clears the suggestion, keeps the focus on the
\* composer field, disables autocomplete and touches nothing else.  While
\* autocomplete is disabled nothing is offered, and a key that leaves the form
\* open and the (non-empty) composer text as it is leaves autocomplete
\* disabled; a typed character or Backspace in the composer field enables it.
C23_TabAcceptsSuggestion ==
    /\ InSongForm /\ has_active_suggestion(mode.form) =>
          LET r == AfterKey("Tab", 0)
              f == r.a.mode.form
          IN  /\ r.ok
              /\ r.a.mode.kind = mode.kind
              /\ f = [mode.form EXCEPT !.composer = mode.form.suggestion.v,
                                       !.suggestion = NoText,
                                       !.autocomplete_disabled = TRUE]
              /\ f.active = "Composer"
              /\ r.a.calls = <<>>
    /\ InSongForm /\ mode.form.autocomplete_disabled =>
          /\ ~mode.form.suggestion.some
          /\ \A code \in SongFormArms :
                LET r == AfterKey(code, 0)
                    f == r.a.mode.form
                IN  r.ok /\ r.a.mode.kind = mode.kind =>
                        /\ f.composer = mode.form.composer /\ f.composer # <<>> =>
                              f.autocomplete_disabled /\ ~f.suggestion.some
                        /\ mode.form.active = "Composer"
                           /\ code \in TypedKeys \cup {"Backspace"} =>
                              ~f.autocomplete_disabled

\* "Ba" is typed and "Bax" offered: Tab makes the field "Bax" with nothing
\* offered and autocomplete disabled; going round the fields with three more
\* Tabs offers nothing; Backspace after the Tab makes it "Ba" with autocomplete
\* enabled and "Bax" offered again.
C23_Witness ==
    /\ InSongForm
    /\ mode.form.composer = <<"B", "a">>
    /\ mode.form.suggestion = SomeText(<<"B", "a", "x">>)
    /\ AfterKey("Tab", 0).a.mode.form.composer = <<"B", "a", "x">>
    /\ AfterKey("Tab", 0).a.mode.form.autocomplete_disabled
    /\ LET round == handle_key(Then(handle_key(Then(handle_key(Then(
                        AfterKey("Tab", 0), 0), "Tab"), 0), "Tab"), 0), "Tab")
       IN  /\ round.a.mode.form.active = "Composer"
           /\ round.a.mode.form.autocomplete_disabled
           /\ ~round.a.mode.form.suggestion.some
    /\ LET back == handle_key(Then(AfterKey("Tab", 0), 0), "Backspace")
       IN  /\ back.a.mode.form.composer = <<"B", "a">>
           /\ ~back.a.mode.form.autocomplete_disabled
           /\ back.a.mode.form.suggestion = SomeText(<<"B", "a", "x">>)

\* A song form with the focus on the composer field
OnComposer == InSongForm /\ mode.form.active = "Composer"

\* The key moves the focus of the composer field away: Shift-Tab always, Tab
\* unless it accepts a suggestion
MovesFocus(code) ==
    \/ code = "BackTab"
    \/ code = "Tab" /\ ~has_active_suggestion(mode.form)

\* C24 as stated: a focus change away from the composer field and Esc on an
\* active suggestion both clear the suggestion and leave the
\* autocomplete-disabled flag as it was.
C24_AsStated ==
    OnComposer =>
        \A code \in {"Tab", "BackTab", "Esc"} :
            MovesFocus(code) \/ (code = "Esc" /\ has_active_suggestion(mode.form)) =>
                LET f == AfterKey(code, 0).a.mode.form
                IN  /\ ~f.suggestion.some
                    /\ f.autocomplete_disabled = mode.form.autocomplete_disabled

\* C24: a focus change away from the composer field clears the suggestion
\* and leaves the autocomplete-disabled flag and the three texts as they
\* were; Esc on an active suggestion keeps the form open on the composer
\* field with its texts, clears the suggestion and sets the flag, making no
\* store call and leaving the status line alone.
C24_SuggestionCleared ==
    OnComposer =>
        /\ \A code \in {"Tab", "BackTab"} :
              MovesFocus(code) =>
                  LET r == AfterKey(code, 0)
                  IN  /\ r.ok
                      /\ r.a.mode.kind = mode.kind
                      /\ r.a.mode.form = [mode.form EXCEPT !.active = "Link",
                                                           !.suggestion = NoText]
        /\ has_active_suggestion(mode.form) =>
              LET r == AfterKey("Esc", 0)
              IN  /\ r.ok
                  /\ r.a.mode.kind = mode.kind
                  /\ ~mode.form.autocomplete_disabled
                  /\ r.a.mode.form = [mode.form EXCEPT !.suggestion = NoText,
                                                       !.autocomplete_disabled = TRUE]
                  /\ r.a.calls = <<>>
                  /\ r.a.status = status

\* "Ba" is typed and "Bax" offered: Shift-Tab moves to the link field with
\* nothing offered and autocomplete still enabled; Esc stays on the composer
\* field with nothing offered and autocomplete disabled, and three Tabs round
\* the fields later "Ba" is still offered nothing.
C24_Witness ==
    /\ OnComposer
    /\ mode.form.composer = <<"B", "a">>
    /\ mode.form.suggestion = SomeText(<<"B", "a", "x">>)
    /\ AfterKey("BackTab", 0).a.mode.form.active = "Link"
    /\ ~AfterKey("BackTab", 0).a.mode.form.autocomplete_disabled
    /\ ~AfterKey("BackTab", 0).a.mode.form.suggestion.some
    /\ AfterKey("Esc", 0).a.mode.form.autocomplete_disabled
    /\ LET round == handle_key(Then(handle_key(Then(handle_key(Then(
                        AfterKey("Esc", 0), 0), "Tab"), 0), "Tab"), 0), "Tab")
       IN  /\ round.a.mode.form.active = "Composer"
           /\ round.a.mode.form.composer = <<"B", "a">>
           /\ ~round.a.mode.form.suggestion.some

-----------------------------------------------------------------------------
(* Properties of Esc in the forms *)

InForm == run = "running" /\ mode.kind \in BinderFormModes \cup SongFormModes

\* The Mode a closing form leaves: the stashed search for the song edit form
\* opened from one, else Normal
ClosedMode(stash) ==
    IF mode.kind = "EditingSong" /\ stash.some THEN Searching(stash.state) ELSE Normal

\* Result r made no store call and left the store, the caches and the screen
\* as they are
NothingStored(r) ==
    /\ r.ok
    /\ r.a.calls = <<>>
    /\ r.a.conn = conn
    /\ r.a.binders = binders
    /\ r.a.composers = composers
    /\ r.a.screen = screen

\* C25: in every form mode Esc makes no store call and changes neither the
\* store, the caches nor the screen.  It closes the form, except in a song
\* form with an active suggestion: there it keeps the form open with the
\* title, composer and link as they are and no suggestion active, and a
\* second Esc closes the form, again without a store call.
C25_EscClosesForm ==
    InForm =>
        LET r == AfterKey("Esc", 0)
            again == handle_key(Then(r, 0), "Esc")
        IN  /\ NothingStored(r)
            /\ IF mode.kind \in SongFormModes /\ has_active_suggestion(mode.form)
               THEN /\ r.a.mode.kind = mode.kind
                    /\ r.a.mode.form.title = mode.form.title
                    /\ r.a.mode.form.composer = mode.form.composer
                    /\ r.a.mode.form.link = mode.form.link
                    /\ r.a.mode.form.active = mode.form.active
                    /\ ~has_active_suggestion(r.a.mode.form)
                    /\ r.a.status = status
                    /\ NothingStored(again)
                    /\ again.a.mode = ClosedMode(r.a.saved_search)
               ELSE r.a.mode = ClosedMode(saved_search)

\* The song creation form with a title typed, "Ba" in the composer field and
\* "Bax" offered: Esc keeps it open with the same texts, another Esc closes it.
C25_Witness ==
    /\ InForm
    /\ mode.kind = "CreatingSong"
    /\ mode.form.title # <<>>
    /\ mode.form.composer = <<"B", "a">>
    /\ has_active_suggestion(mode.form)
    /\ AfterKey("Esc", 0).a.mode.kind = "CreatingSong"
    /\ AfterKey("Esc", 0).a.mode.form.composer = <<"B", "a">>
    /\ handle_key(Then(AfterKey("Esc", 0), 0), "Esc").a.mode = Normal

-----------------------------------------------------------------------------
(* Properties of the print report without a director *)

\* The keys that leave the print report
BackKeys == {"Esc", "p", "P"}
QuitKeys == {"q"}

\* No binder the application holds has number 0
NoDirector == \A i \in 1..Len(binders) : binders[i].number # 0

\* The print report in its missing-director state
DirectorMissing == OnPrint /\ ~screen.director_exists

\* C26: `p` on the binder grid with no binder numbered 0 opens the print
\* report in its missing-director state without a store call.  In that state
\* every key but Esc, p and q, and Ctrl+E and Ctrl+L too, leaves the screen
\* (cursor, scroll, view mode, rows, pending_changes), the Mode, the store and
\* the status line as they are and makes no store call; Esc and p go back to
\* the binder grid and q quits, at once and without a store call.
C26_MissingDirectorInert ==
    /\ run = "running" /\ mode.kind = "Normal" /\ screen.kind = "Binders" /\ NoDirector
          => /\ AfterKey("p", 0).ok
             /\ AfterKey("p", 0).a.screen = ToPrintScreen_missing_director
             /\ AfterKey("p", 0).a.mode = Normal
             /\ AfterKey("p", 0).a.calls = <<>>
    /\ DirectorMissing =>
          /\ screen = ToPrintScreen_missing_director
          /\ \A code \in AllKeys \ (BackKeys \cup QuitKeys), failAt \in FailPoints :
                LET r == AfterKey(code, failAt)
                IN  /\ r.ok /\ ~r.v
                    /\ r.a.screen = screen
                    /\ r.a.mode = Normal
                    /\ r.a.calls = <<>>
                    /\ r.a.conn = conn
                    /\ r.a.status = status
          /\ handle_ctrl_e(App(0)).a = App(0)
          /\ handle_ctrl_l(App(0)).a = App(0)
          /\ \A code \in BackKeys :
                LET r == AfterKey(code, 0)
                IN  /\ r.ok /\ ~r.v
                    /\ r.a.screen = Screen_Binders
                    /\ r.a.mode = Normal
                    /\ r.a.calls = <<>>
          /\ \A code \in QuitKeys :
                LET r == AfterKey(code, 0)
                IN  /\ r.ok /\ r.v
                    /\ r.a.mode = Normal
                    /\ r.a.calls = <<>>

\* The report opened on binders numbered 1, 2 and 3, one of which lacks a
\* song another holds: Tab, Space and Down change nothing, Esc goes back.
C26_Witness ==
    /\ DirectorMissing
    /\ Len(binders) = 3
    /\ NoDirector
    /\ conn.binder_songs # {}
    /\ AfterKey("Tab", 0).a.screen = screen
    /\ AfterKey(" ", 0).a.screen = screen
    /\ AfterKey("Down", 0).a.screen = screen
    /\ AfterKey("Esc", 0).a.screen = Screen_Binders

-----------------------------------------------------------------------------
(* Properties of Space in the print report *)

\* The cursor of the binder-grouped report is on a song row
OnSongRow ==
    /\ screen.director_exists
    /\ screen.mode = "ByBinder"
    /\ screen.selected_index < Len(screen.binder_rows)
    /\ At(screen.binder_rows, screen.selected_index).kind = "Song"

\* C27: in the print report Space leaves the whole screen (every checkbox,
\* pending_changes, every needed total, the rows, the cursor and the scroll),
\* the status line and the store as they are, and makes no store call, unless
\* the report is binder-grouped with the cursor on a song row; there it flips
\* that row's checkbox and leaves the cursor where it is.
C27_SpaceOnlyOnSongRows ==
    OnPrint =>
        LET r == AfterKey(" ", 0)
        IN  /\ r.ok
            /\ r.a.calls = <<>>
            /\ r.a.conn = conn
            /\ r.a.mode = Normal
            /\ r.a.screen.selected_index = screen.selected_index
            /\ r.a.screen.mode = screen.mode
            /\ IF OnSongRow
               THEN /\ CheckedPairs(r.a.screen) # CheckedPairs(screen)
                    /\ r.a.screen.pending_changes # screen.pending_changes
               ELSE /\ r.a.screen = screen
                    /\ r.a.status = status

\* A song-grouped report with a pending change and the cursor on its second
\* row, whose binder-grouped counterpart has a song row at that index; and
\* Space changes nothing.
C27_Witness ==
    /\ OnPrint
    /\ screen.mode = "BySong"
    /\ screen.selected_index = 1
    /\ screen.pending_changes > 0
    /\ Len(screen.binder_rows) > 1
    /\ At(screen.binder_rows, 1).kind = "Song"
    /\ AfterKey(" ", 0).a.screen = screen

-----------------------------------------------------------------------------
(* Properties of the song-grouped projection *)

\* A print report with a director, whatever the Mode
OnReport == run = "running" /\ screen.kind = "ToPrint" /\ screen.director_exists

\* The entries of song_totals whose needed count is positive
Positive(s) == {i \in 1..Len(s.song_totals) : s.song_totals[i].needed > 0}

\* The unchecked entries of the binder reports for a song
Unchecked(s, song_id) ==
    {p \in Entries(s) : EntryAt(s, p).song.id = song_id /\ ~EntryAt(s, p).checked}

\* C28: in a print report with a director song_totals holds each song once,
\* its needed count being the number of its unchecked entries.  The
\* song-grouped projection has exactly one row for each song whose needed
\* count is positive, carrying that count, the rows in nondecreasing order of
\* lowercase title, then lowercase composer; with no positive count it is the
\* one placeholder row.
C28_SongRowsProjection ==
    OnReport =>
        LET s == screen
            rows == s.song_rows
        IN  /\ \A i, j \in 1..Len(s.song_totals) :
                  s.song_totals[i].song.id = s.song_totals[j].song.id => i = j
            /\ \A i \in 1..Len(s.song_totals) :
                  s.song_totals[i].needed =
                      Cardinality(Unchecked(s, s.song_totals[i].song.id))
            /\ IF Positive(s) = {} THEN rows = <<SongRow_placeholder>>
               ELSE /\ Len(rows) = Cardinality(Positive(s))
                    /\ \A i \in Positive(s) :
                          \E k \in 1..Len(rows) :
                              /\ rows[k].song = s.song_totals[i].song
                              /\ rows[k].needed = s.song_totals[i].needed
                    /\ \A k \in 1..(Len(rows) - 1) : NeededCmp(rows[k], rows[k + 1]) <= 0

\* song_totals holds "b", needed twice, before "A", needed once: the
\* projection lists "A" first, with their counts; the cursor is on the row of
\* the one binder lacking "A", and Space there leaves the row of "b" alone.
C28_Witness ==
    /\ OnReport
    /\ OnPrint
    /\ Len(screen.song_totals) = 2
    /\ NeededCmp(screen.song_totals[1], screen.song_totals[2]) > 0
    /\ screen.song_totals[1].needed = 2
    /\ screen.song_totals[2].needed = 1
    /\ screen.song_rows = <<SongRow_from_needed(screen.song_totals[2]),
                            SongRow_from_needed(screen.song_totals[1])>>
    /\ OnSongRow
    /\ AfterKey(" ", 0).a.screen.song_rows
          = <<SongRow_from_needed(screen.song_totals[1])>>

-----------------------------------------------------------------------------
(* Properties of the uniqueness of binder numbers                           *)

\* The message map_unique_constraint builds for `number`
AlreadyExists(number) == Msg("Binder number {number} already exists.", number)

\* r failed with the uniqueness error naming `number` and wrote nothing
RejectedAsDuplicate(r, number) ==
    /\ ~r.ok
    /\ r.err = AlreadyExists(number)
    /\ r.a.conn = conn

\* The binder form on screen is valid and its number belongs to a binder of
\* the store other than the one being edited, which is in the store
DuplicateInForm ==
    /\ run = "running"
    /\ mode.kind \in BinderFormModes
    /\ FormIsValid
    /\ LET p == BinderForm_parse_inputs(mode.form)
       IN  IF mode.kind = "AddingBinder"
           THEN \E x \in conn.binders : x.number = p.number
           ELSE /\ \E x \in conn.binders : x.id = mode.id
                /\ \E x \in conn.binders : x.id # mode.id /\ x.number = p.number

\* C29: create_binder with a number in use, and update_binder giving a binder
\* the number of another one, fail with the error naming that number and
\* leave the binders table as it was; Enter in a binder form holding such a
\* number keeps the form open with that message on the form and the status
\* line, and the store and the binder cache are unchanged.
C29_DuplicateNumberRejected ==
    /\ \A x \in conn.binders :
          /\ RejectedAsDuplicate(create_binder(App(0), x.number, <<"a">>), x.number)
          /\ \A y \in conn.binders \ {x} :
                RejectedAsDuplicate(update_binder(App(0), y.id, x.number, y.label),
                                    x.number)
    /\ DuplicateInForm =>
          LET r == AfterKey("Enter", 0)
              number == BinderForm_parse_inputs(mode.form).number
          IN  /\ FormRetained(r)
              /\ r.a.mode.form.error = AlreadyExists(number)
              /\ r.a.conn = conn
              /\ r.a.binders = binders
              /\ Len(r.a.calls) = 1
              /\ r.a.calls[1].op
                    = IF mode.kind = "AddingBinder" THEN "create_binder"
                      ELSE "update_binder"

\* Binder 11 was added and is being edited; Backspace left "1", the number of
\* binder 1, in its form
C29_Witness ==
    /\ DuplicateInForm
    /\ mode.kind = "EditingBinder"
    /\ Cardinality(conn.binders) = 3
    /\ AfterKey("Enter", 0).a.status
          = StatusMessage(AlreadyExists(1), "Error")

-----------------------------------------------------------------------------
(* Properties of deleting a binder                                          *)

\* The ids a binder may have had
BinderIds == 1..(MaxBinderId + 1)

\* The store c without binder `id` and without its associations
WithoutBinder(c, id) ==
    [c EXCEPT !.binders = {x \in @ : x.id # id},
              !.binder_songs = {l \in @ : l[1] # id}]

\* C30: delete_binder of a stored binder removes its row and every
\* association of that binder in the one call, and leaves the songs, the
\* other binders and their associations as they were; for an id that is not
\* stored it fails with "Binder not found" and changes nothing.  Confirming
\* a binder's deletion does exactly that to the store.
C30_DeleteBinderCascades ==
    /\ \A id \in BinderIds :
          LET r == delete_binder(App(0), id)
          IN  IF \E x \in conn.binders : x.id = id
              THEN /\ r.ok
                   /\ r.a.conn = WithoutBinder(conn, id)
                   /\ r.a.conn.songs = conn.songs
                   /\ \A l \in conn.binder_songs :
                         l \in r.a.conn.binder_songs <=> l[1] # id
                   /\ r.a.conn.binder_songs \subseteq conn.binder_songs
                   /\ \A x \in conn.binders :
                         x \in r.a.conn.binders <=> x.id # id
                   /\ r.a.conn.binders \subseteq conn.binders
              ELSE /\ ~r.ok
                   /\ r.err = Msg("Binder not found", 0)
                   /\ r.a.conn = conn
    /\ run = "running" /\ mode.kind = "ConfirmBinderDelete" =>
          LET r == AfterKey("y", 0)
          IN  r.a.conn = IF \E x \in conn.binders : x.id = mode.confirm.id
                         THEN WithoutBinder(conn, mode.confirm.id)
                         ELSE conn

\* The deletion of a binder holding songs is being confirmed while another
\* binder holds songs too: y takes the first binder's associations only
C30_Witness ==
    /\ run = "running"
    /\ mode.kind = "ConfirmBinderDelete"
    /\ \E l \in conn.binder_songs : l[1] = mode.confirm.id
    /\ \E l \in conn.binder_songs : l[1] # mode.confirm.id
    /\ LET c == AfterKey("y", 0).a.conn
       IN  /\ c.binder_songs = {l \in conn.binder_songs : l[1] # mode.confirm.id}
           /\ c.binder_songs # conn.binder_songs
           /\ c.songs = conn.songs

-----------------------------------------------------------------------------
(* Properties of linking and unlinking                                      *)

\* The pairs of a stored binder and a stored song
StoredPairs == {<<b.id, x.id>> : b \in conn.binders, x \in conn.songs}

\* C31: add_song_to_binder of a linked pair succeeds and leaves the store as
\* it was, so calling it twice on any stored pair gives the store that
\* calling it once gives; remove_song_from_binder of a pair that is not
\* linked fails with "Song not linked to this binder" and leaves the store
\* as it was.
C31_LinkIdempotent ==
    \A l \in StoredPairs :
        LET once == add_song_to_binder(App(0), l[1], l[2])
            twice == add_song_to_binder(Then(once, 0), l[1], l[2])
            gone == remove_song_from_binder(App(0), l[1], l[2])
        IN  /\ once.ok /\ twice.ok
            /\ once.a.conn = [conn EXCEPT !.binder_songs = @ \cup {l}]
            /\ twice.a.conn = once.a.conn
            /\ l \in conn.binder_songs => once.a.conn = conn
            /\ l \notin conn.binder_songs =>
                  /\ ~gone.ok
                  /\ gone.err = Msg("Song not linked to this binder", 0)
                  /\ gone.a.conn = conn

\* The removal of a song from a binder is being confirmed: once y has
\* unlinked the pair, unlinking it again fails, linking it restores the
\* store and linking it once more changes nothing.
C31_Witness ==
    /\ run = "running"
    /\ mode.kind = "ConfirmSongRemove"
    /\ LET l == <<mode.confirm.binder_id, mode.confirm.song.id>>
           r == AfterKey("y", 0)
           gone == remove_song_from_binder(Then(r, 0), l[1], l[2])
           once == add_song_to_binder(Then(r, 0), l[1], l[2])
           twice == add_song_to_binder(Then(once, 0), l[1], l[2])
       IN  /\ l \in conn.binder_songs
           /\ r.ok /\ l \notin r.a.conn.binder_songs
           /\ ~gone.ok /\ gone.a.conn = r.a.conn
           /\ once.ok /\ once.a.conn = conn
           /\ twice.ok /\ twice.a.conn = conn

-----------------------------------------------------------------------------
(* Properties of the order of the binder list                               *)

\* seq lists every binder of the set S once, by ascending number
ListsByNumber(seq, S) ==
    /\ Len(seq) = Cardinality(S)
    /\ {seq[i] : i \in 1..Len(seq)} = S
    /\ \A i \in 1..(Len(seq) - 1) : seq[i].number < seq[i + 1].number

\* The key that carries out what the current binder Mode is about
SavingKey == IF mode.kind = "ConfirmBinderDelete" THEN "y" ELSE "Enter"

BinderModes == BinderFormModes \cup {"ConfirmBinderDelete"}

\* C32: fetch_binders lists every stored binder once by ascending number,
\* whatever the order of their ids and labels; after an add, an edit or a
\* delete of a binder that succeeded, the binder cache is that listing of
\* the store.
C32_BindersListedByNumber ==
    /\ LET r == fetch_binders(App(0))
       IN  r.ok /\ ListsByNumber(r.v, conn.binders)
    /\ run = "running" /\ mode.kind \in BinderModes =>
          \A failAt \in FailPoints :
              LET r == AfterKey(SavingKey, failAt)
              IN  r.ok /\ r.a.mode = Normal =>
                      /\ ListsByNumber(r.a.binders, r.a.conn.binders)
                      /\ r.a.binders = fetch_binders(Then(r, 0)).v

\* A binder was added with number 3 and binder 2, numbered 1 and listed
\* first, is being renumbered 13: the cache then lists it last, after the
\* new binder
C32_Witness ==
    /\ run = "running"
    /\ mode.kind = "EditingBinder" /\ mode.id = 2
    /\ Len(binders) = 3
    /\ binders[1].id = 2 /\ binders[2].id = 1 /\ binders[3].id = MaxBinderId
    /\ LET r == AfterKey("Enter", 0)
       IN  /\ r.a.mode = Normal
           /\ r.a.binders = <<binders[2], binders[3],
                              Binder(2, 13, binders[1].label)>>

-----------------------------------------------------------------------------
(* Properties of the print report's counters                                *)

\* The checked entries of the binder reports
Checked(s) == {p \in Entries(s) : EntryAt(s, p).checked}

\* C33: whenever the print report is on screen, pending_changes is the
\* number of checked entries of the binder reports, so has_pending_changes
\* holds exactly when pending_assignments lists a pair, and the needed count
\* of every song of song_totals is the number of its unchecked entries.
C33_CountersMatchCheckboxes ==
    screen.kind = "ToPrint" =>
        /\ screen.pending_changes = Cardinality(Checked(screen))
        /\ Len(pending_assignments(screen)) = screen.pending_changes
        /\ has_pending_changes(screen) <=> pending_assignments(screen) # <<>>
        /\ \A i \in 1..Len(screen.song_totals) :
              screen.song_totals[i].needed
                  = Cardinality(Unchecked(screen, screen.song_totals[i].song.id))

\* Two entries were checked and one of them unchecked again: one change is
\* pending, one song is no longer needed and another still is
C33_Witness ==
    /\ OnPrint
    /\ screen.pending_changes = 1
    /\ Cardinality(Entries(screen)) >= 3
    /\ \E i, j \in 1..Len(screen.song_totals) :
          screen.song_totals[i].needed = 0 /\ screen.song_totals[j].needed = 2
    /\ status = StatusMessage(Msg("Song unchecked.", 0), "Info")

-----------------------------------------------------------------------------
(* Properties of the search state across screens                            *)

\* The Screen a search with this target filters
ScreenOf(target) == IF target = "Songs" THEN "Songs" ELSE "SongManager"

\* C34: whenever Mode is Searching, the Screen is the one its target names:
\* the binder-detail screen for Songs, the song manager for SongManager; a
\* stashed search state is never restored on another screen.
C34_SearchTargetMatchesScreen ==
    run = "running" /\ mode.kind = "Searching" =>
        screen.kind = ScreenOf(mode.state.target)

\* C35: whenever Mode is Normal the list on screen has no search filter.
C35_NormalModeUnfiltered ==
    run = "running" /\ mode.kind = "Normal"
        /\ screen.kind \in {"Songs", "SongManager"} =>
        ~screen.filter.some

-----------------------------------------------------------------------------
(* Properties of leaving the application                                    *)

\* The pairs the report's checkboxes ask to link are linked in store c
AllApplied(c) == CheckedPairs(screen) \subseteq c.binder_songs

\* The cases in which a key may end the application: q in Normal mode (in
\* the print report only with nothing pending), Esc on the Binders screen,
\* and Enter on Discard or on Apply in the exit confirmation that q opened
MayExit(code) ==
    \/ /\ mode.kind = "Normal"
       /\ code = "q"
       /\ screen.kind = "ToPrint" => screen.pending_changes = 0
    \/ /\ mode.kind = "Normal"
       /\ screen.kind = "Binders"
       /\ code = "Esc"
    \/ /\ mode.kind = "ConfirmToPrintExit"
       /\ mode.confirm.exit_app
       /\ code = "Enter"
       /\ mode.confirm.selection \in {"Discard", "Apply"}

\* Enter on Apply
Applying(code) ==
    mode.kind = "ConfirmToPrintExit" /\ code = "Enter"
        /\ mode.confirm.selection = "Apply"

\* C36: handle_key returns Ok(true) only in the cases of MayExit, and in
\* each of them it does unless the case is Apply and a call failed; an Apply
\* that ends the application made every link call without a failure and has
\* linked every checked pair; in the form, picker, search and delete/remove
\* confirmation modes no key ends the application.
C36_ExitOnlyWhereStated ==
    run = "running" =>
        \A code \in AllKeys, failAt \in FailPoints :
            LET r == AfterKey(code, failAt)
                exits == r.ok /\ r.v
            IN  /\ exits => MayExit(code)
                /\ MayExit(code) /\ ~Applying(code) => exits
                /\ MayExit(code) /\ Applying(code) =>
                      (exits <=> ~CallFailed(r, failAt))
                /\ exits /\ Applying(code) =>
                      /\ AllApplied(r.a.conn)
                      /\ failAt \notin 1..Len(pending_assignments(screen))
                /\ mode.kind \notin {"Normal", "ConfirmToPrintExit"} => ~exits

\* The exit confirmation opened by q, on Apply with a pair checked: Enter
\* ends the application when the link succeeds and not when it fails, and
\* Esc does not
C36_Witness ==
    /\ run = "running"
    /\ mode.kind = "ConfirmToPrintExit"
    /\ mode.confirm.exit_app
    /\ mode.confirm.selection = "Apply"
    /\ screen.pending_changes > 0
    /\ AfterKey("Enter", 0).v
    /\ ~AfterKey("Enter", 1).v
    /\ ~AfterKey("Esc", 0).v

-----------------------------------------------------------------------------
(* Properties of a failing Apply                                            *)

\* The first n pairs of the report's pending assignments
FirstPairs(n) == SeqToSet(SubSeq(pending_assignments(screen), 1, n))

\* C37: when the k-th link call of Enter on Apply fails, the confirmation
\* stays open on the print report with an error status, the application goes
\* on, the report with its checkboxes and pending_changes is as it was, and
\* the store holds the links it had and those of the k - 1 calls before the
\* failing one; Enter again, with no failure, leaves the store with exactly
\* the links it had at first and all checked pairs.
C37_FailedApplyRetained ==
    Confirming("Apply") =>
        \A failAt \in FailPoints \cap (1..Len(pending_assignments(screen))) :
            LET r == AfterKey("Enter", failAt)
                again == handle_key(Then(r, 0), "Enter")
            IN  /\ r.ok /\ ~r.v
                /\ r.a.mode = mode
                /\ r.a.screen = screen
                /\ r.a.status.kind = "Error"
                /\ r.a.conn = [conn EXCEPT !.binder_songs = @ \cup FirstPairs(failAt - 1)]
                /\ again.ok
                /\ again.a.mode = Normal
                /\ again.a.conn
                      = [conn EXCEPT !.binder_songs = @ \cup CheckedPairs(screen)]

\* Two pairs are checked and the second link call fails: the first pair is
\* linked, the second is not, and the confirmation stays
C37_Witness ==
    /\ Confirming("Apply")
    /\ Len(pending_assignments(screen)) = 2
    /\ LET r == AfterKey("Enter", 2)
       IN  /\ r.a.mode = mode
           /\ pending_assignments(screen)[1] \in r.a.conn.binder_songs
           /\ pending_assignments(screen)[2] \notin r.a.conn.binder_songs
           /\ r.a.screen.pending_changes = 2

-----------------------------------------------------------------------------
(* Properties of a reported save failure                                    *)

\* C38: whenever Enter in the add-binder or edit-binder form leaves the form
\* open with an error, whichever store call failed, the store's binder table
\* is as it was before the key.
C38_ReportedFailureWroteNothing ==
    run = "running" /\ mode.kind \in BinderFormModes =>
        \A failAt \in FailPoints :
            LET r == AfterKey("Enter", failAt)
            IN  r.ok /\ r.a.mode.kind = mode.kind /\ r.a.mode.form.error # NoMsg =>
                    r.a.conn.binders = conn.binders

-----------------------------------------------------------------------------
(* Properties of the list cursors                                           *)

\* index is a position among `count` rows, or 0 when there is none
InRange(index, count) == IF count = 0 THEN index = 0 ELSE index \in 0..(count - 1)

\* C39: in every state the cursor of the list on screen is within the rows
\* displayed: the filtered songs of the binder-detail screen and of the song
\* manager, the rows of the print report's current view, and the items of
\* the song picker; it is 0 when no row is displayed.
C39_SelectionWithinRows ==
    /\ screen.kind \in {"Songs", "SongManager"} =>
          InRange(screen.selected, Len(screen.filtered_songs))
    /\ screen.kind = "ToPrint" =>
          InRange(screen.selected_index, current_len(screen))
    /\ mode.kind = "SelectingSong" =>
          InRange(mode.state.selected, Len(mode.state.items))

\* The song manager's cursor is on the last of several songs, whose deletion
\* is being confirmed: y removes the row and the cursor moves up onto the
\* new last row
C39_Witness ==
    /\ run = "running"
    /\ mode.kind = "ConfirmSongDelete"
    /\ screen.kind = "SongManager"
    /\ Len(screen.filtered_songs) >= 2
    /\ screen.selected = Len(screen.filtered_songs) - 1
    /\ LET r == AfterKey("y", 0)
       IN  /\ r.ok
           /\ Len(r.a.screen.filtered_songs) = Len(screen.filtered_songs) - 1
           /\ r.a.screen.selected = screen.selected - 1

-----------------------------------------------------------------------------
(* Properties of the grid cursor after a binder is saved or deleted         *)

\* The grid cursor of a is on the binder `id`, which carries number and label
CursorOn(a, id, number, label) ==
    /\ a.selected < Len(a.binders)
    /\ At(a.binders, a.selected) = Binder(id, number, label)

\* C40: when Enter in a binder form saves (the Mode closes), the grid cursor
\* is on the binder added or edited, found by its id at its place in the
\* cache listed by number; when y deletes a binder, the Screen is Binders,
\* the binder is not in the cache, and the cursor is within the cache, 0
\* when it is empty.
C40_CursorFollowsBinder ==
    run = "running" /\ mode.kind \in BinderModes =>
        \A failAt \in FailPoints :
            LET r == AfterKey(SavingKey, failAt)
                p == BinderForm_parse_inputs(mode.form)
            IN  r.ok /\ r.a.mode = Normal =>
                    CASE mode.kind = "AddingBinder" ->
                           /\ CursorOn(r.a, conn.next_binder_id, p.number, p.label)
                           /\ ListsByNumber(r.a.binders, r.a.conn.binders)
                      [] mode.kind = "EditingBinder" ->
                           /\ CursorOn(r.a, mode.id, p.number, p.label)
                           /\ ListsByNumber(r.a.binders, r.a.conn.binders)
                      [] OTHER ->
                           /\ r.a.screen = Screen_Binders
                           /\ \A i \in 1..Len(r.a.binders) :
                                 r.a.binders[i].id # mode.confirm.id
                           /\ InRange(r.a.selected, Len(r.a.binders))

\* The binder listed first of three is renumbered 13: the cursor, on the
\* first cell, follows it to the last
C40_Witness ==
    /\ run = "running"
    /\ mode.kind = "EditingBinder"
    /\ Len(binders) = 3
    /\ selected = 0
    /\ binders[1].id = mode.id
    /\ LET r == AfterKey("Enter", 0)
       IN  /\ r.a.mode = Normal
           /\ r.a.selected = 2
           /\ r.a.binders[3].id = mode.id
           /\ r.a.binders[3].number = 13

====
